---- MODULE Spec2Model ----
(***************************************************************************)
(* A model of pdf-bulk-filler: the mapping model (mapping/manager.py), the *)
(* rule evaluator and rule serialization (mapping/rules.py), the checkbox  *)
(* state resolver, the interactive fill and the flatten fill               *)
(* (pdf/engine.py), the generation worker (ui/workers.py) and the job slot *)
(* of the main window (ui/main_window.py).  Each part has its own          *)
(* specification over its own variables; the other parts' variables stay   *)
(* at their initial value.                                                 *)
(***************************************************************************)
EXTENDS Naturals, Integers, Sequences, FiniteSets, TLC

VARIABLES
    rs_states,    \* resolver: the widget's /AP /N keys, in dictionary order
    rs_value,     \* resolver: the value handed to _resolve_checkbox_state
    rs_result,    \* resolver: what the call returned
    rs_pc,        \* resolver: "input" before the call, "done" after it
    fl_template,  \* fill: the template's widget annotations, in page and /Annots order
    fl_payload,   \* fill: the evaluated field values (field name -> value)
    fl_read_only, \* fill: the read_only argument
    fl_output,    \* fill: the document written to output_path
    fl_pc,        \* fill: "input", then "done" or "failed"
    mp_rules,     \* mapping: MappingModel.rules, an insertion-ordered dict (a sequence of entries)
    mp_last,      \* mapping: the last call, its arguments and the rules before it
    mp_ops,       \* mapping: number of calls made
    cb_template,  \* combined job: the objects of the template document
    cb_page_count, \* combined job: the template's number of pages
    cb_rows,      \* combined job: the number of rows
    cb_read_only, \* combined job: the worker's _read_only
    cb_outputs,   \* combined job: the scratch documents fill_rows wrote, one per row
    cb_index,     \* combined job: index of the merge loop
    cb_writer,    \* combined job: combined_writer, its page count and appended documents
    cb_pc,        \* combined job: "fill", "merge", "write", "done"
    gn_thread,    \* window: _generation_thread (0 is None)
    gn_worker,    \* window: _generation_worker (0 is None)
    gn_progress,  \* window: _generation_progress (0 is None)
    gn_main,      \* window: "idle", or "waiting" inside thread.wait()
    gn_pending,   \* window: the handler that is waiting in thread.wait()
    gn_jobs,      \* window: number of jobs started so far
    gn_running,   \* the threads that are running
    gn_workers,   \* the worker of every job
    gn_disk,      \* the files of the output folder and the combined file
    gn_last,      \* window: the last handler that ran, and the slot before it
    ev_rules,     \* evaluation: the rules handed to evaluate_rules, in order
    ev_saved,     \* evaluation: the rules before they were written to JSON and read back
    ev_row,       \* evaluation: the data row, column name -> cell
    ev_fragments, \* evaluation: the fragment evaluate returned for each rule
    ev_payload,   \* evaluation: the merged payload evaluate_rules returned
    ev_pc,        \* evaluation: "input", then "done" or "raised"
    fx_template,  \* flatten: the widgets of the template, in page and widget order
    fx_payload,   \* flatten: the evaluated field values (field name -> value)
    fx_working,   \* flatten: the working copy: widgets left, texts drawn, form dictionary
    fx_i,         \* flatten: index of the widget the loop is at
    fx_output,    \* flatten: the document at output_path
    fx_pc,        \* flatten: "draw", "delete", "form", "save", "strip", "done"
    nm_rows,      \* names: the cell of the name column, one per row
    nm_index,     \* names: the index of the row fill_rows is at
    nm_counts,    \* names: FilenameBuilder._counts
    nm_names,     \* names: the names the builder returned, in call order
    nm_disk,      \* names: the files in the destination directory, path -> row that wrote it last
    nm_pc         \* names: "rows", then "done"

varsResolve == <<rs_states, rs_value, rs_result, rs_pc>>

varsFill == <<fl_template, fl_payload, fl_read_only, fl_output, fl_pc>>

varsMapping == <<mp_rules, mp_last, mp_ops>>

varsCombine ==
    <<cb_template, cb_page_count, cb_rows, cb_read_only, cb_outputs, cb_index, cb_writer, cb_pc>>

varsGeneration ==
    <<gn_thread, gn_worker, gn_progress, gn_main, gn_pending, gn_jobs, gn_running, gn_workers,
      gn_disk, gn_last>>

varsEvaluate == <<ev_rules, ev_saved, ev_row, ev_fragments, ev_payload, ev_pc>>

varsFlatten == <<fx_template, fx_payload, fx_working, fx_i, fx_output, fx_pc>>

varsNames == <<nm_rows, nm_index, nm_counts, nm_names, nm_disk, nm_pc>>

vars == <<varsResolve, varsFill, varsMapping, varsCombine, varsGeneration, varsEvaluate, varsFlatten, varsNames>>

(***************************************************************************)
(* Strings.  A Python string of the vocabulary is its lower-case word, the *)
(* letter case it is written in ("l" lower, "C" capitalised), whether it   *)
(* starts with "/", and whether white space surrounds it.  str.lower()     *)
(* and str.strip() act on this representation; two strings are equal when  *)
(* all four parts are.  A PDF name (NameObject) is "/" followed by a cased *)
(* word: the record without the pad and slash parts.                       *)
(***************************************************************************)
OnWords == {"yes", "true", "on", "1", "checked"}

OffWords == {"no", "false", "off", "0", "unchecked"}

CheckboxWords == {"yes", "no", "on", "off", "true", "false", "1", "0", "checked", "unchecked"}

OtherWords == {"male"}

Words == OnWords \cup OffWords \cup OtherWords

Uncased == {"0", "1", ""}

CasesOf(w) == IF w \in Uncased THEN {"l"} ELSE {"l", "C"}

Names == UNION {{[w |-> w, c |-> c] : c \in CasesOf(w)} : w \in Words}

Strings ==
    UNION {{[pad |-> p, slash |-> s, w |-> w, c |-> c] : p \in BOOLEAN, s \in BOOLEAN, c \in CasesOf(w)}
           : w \in Words \cup {""}}

NameObject(w, c) == [w |-> w, c |-> c]

NameOff == NameObject("off", "C")

NameYes == NameObject("yes", "C")

None == NameObject("<None>", "l")

strip(s) == [s EXCEPT !.pad = FALSE]

lower(n) == NameObject(n.w, "l")

(***************************************************************************)
(* Values handed to the resolver: a str, a bool, a NameObject, or another  *)
(* object of which only the truth value is used.                           *)
(***************************************************************************)
StrValue(s) == [t |-> "str", s |-> s]

BoolValue(b) == [t |-> "bool", b |-> b]

NameValue(n) == [t |-> "name", n |-> n]

ObjValue(b) == [t |-> "obj", b |-> b]

Values ==
    {StrValue(s) : s \in Strings} \cup {BoolValue(b) : b \in BOOLEAN}
        \cup {NameValue(n) : n \in Names} \cup {ObjValue(b) : b \in BOOLEAN}

MinOf(S) == CHOOSE i \in S : \A j \in S : i <= j

\* engine.py _match_state: the first state equal to the target or equal to it
\* when both are lower-cased.
_match_state(states, target) ==
    LET hits == {i \in 1..Len(states) :
                    states[i] = target \/ lower(states[i]) = lower(target)}
    IN  IF hits = {} THEN None ELSE states[MinOf(hits)]

\* engine.py _first_on_state: the first state that is not exactly /Off.
_first_on_state(states) ==
    LET hits == {i \in 1..Len(states) : states[i] # NameOff}
    IN  IF hits = {} THEN None ELSE states[MinOf(hits)]

_first_off_state_exact(states) ==
    LET hits == {i \in 1..Len(states) : states[i] = NameOff}
    IN  IF hits = {} THEN None ELSE states[MinOf(hits)]

\* engine.py _first_off_state: the first state that is /Off or whose
\* lower-cased name is off, no, false, unchecked or 0.
_first_off_state(states) ==
    LET hits == {i \in 1..Len(states) :
                    states[i] = NameOff \/ lower(states[i]).w \in {"off", "no", "false", "unchecked", "0"}}
    IN  IF hits = {} THEN None ELSE states[MinOf(hits)]

Or(a, b) == IF a # None THEN a ELSE b

\* The str branch of _resolve_checkbox_state (engine.py 280-308).
ResolveStr(value, states) ==
    LET stripped == strip(value)
    IN  IF stripped.slash /\ stripped.w # ""
        THEN LET target == NameObject(stripped.w, stripped.c)
             IN  Or(_match_state(states, target), target)
        ELSE IF ~stripped.slash /\ stripped.w \in {"yes", "true", "on", "1", "checked"}
        THEN Or(Or(_match_state(states, NameYes), _first_on_state(states)), NameYes)
        ELSE IF ~stripped.slash /\ stripped.w \in {"no", "false", "off", "0", "unchecked"}
        THEN LET byOff == _match_state(states, NameOff)
                 byName == _match_state(states, NameObject(stripped.w, stripped.c))
             IN  Or(Or(Or(byOff, byName), _first_off_state(states)), NameOff)
        ELSE IF stripped.slash
        THEN NameObject("/", "l")
        ELSE IF stripped.w # ""
        THEN LET target == NameObject(stripped.w, stripped.c)
             IN  Or(_match_state(states, target), target)
        ELSE NameOff

\* The bool branch (engine.py 309-314): True without an on-state returns
\* _first_on_state()'s None.
ResolveBool(b, states) ==
    LET target == IF b THEN NameYes ELSE NameOff
        match == _match_state(states, target)
    IN  IF match # None THEN match
        ELSE IF b THEN _first_on_state(states)
        ELSE Or(_first_off_state(states), target)

\* PdfEngine._resolve_checkbox_state
_resolve_checkbox_state(value, states) ==
    IF value.t = "name" THEN Or(_match_state(states, value.n), value.n)
    ELSE IF value.t = "str" THEN ResolveStr(value.s, states)
    ELSE IF value.t = "bool" THEN ResolveBool(value.b, states)
    ELSE IF value.b
    THEN Or(Or(_match_state(states, NameYes), _first_on_state(states)), NameYes)
    ELSE Or(_match_state(states, NameOff), NameOff)

(***************************************************************************)
(* The resolver on its own: any value, any ordered set of declared states. *)
(***************************************************************************)
MaxStates == 2

RECURSIVE SeqsUpTo(_, _)
SeqsUpTo(S, n) ==
    IF n = 0 THEN {<<>>}
    ELSE LET shorter == SeqsUpTo(S, n - 1)
         IN  shorter \cup {Append(q, x) : q \in shorter, x \in S}

Distinct(q) == \A i, j \in 1..Len(q) : i # j => q[i] # q[j]

Range(q) == {q[i] : i \in 1..Len(q)}

StateLists == {q \in SeqsUpTo(Names, MaxStates) : Distinct(q)}

InitResolve ==
    /\ rs_states \in StateLists
    /\ rs_value \in Values
    /\ rs_result = None
    /\ rs_pc = "input"

ResolveCall ==
    /\ rs_pc = "input"
    /\ rs_result' = _resolve_checkbox_state(rs_value, rs_states)
    /\ rs_pc' = "done"
    /\ UNCHANGED <<rs_states, rs_value>>

NextResolve == ResolveCall /\ UNCHANGED <<varsFill, varsMapping, varsCombine, varsGeneration, varsEvaluate, varsFlatten, varsNames>>

(***************************************************************************)
(* Properties of the resolver.                                             *)
(***************************************************************************)
OffLike(n) == n.w \in OffWords

\* The state name a str or NameObject intent spells: "/" + the stripped text
\* (the text itself when it already starts with "/").
IntentName(value) ==
    IF value.t = "name" THEN value.n ELSE NameObject(value.s.w, value.s.c)

Named(value) == value.t = "name" \/ (value.t = "str" /\ value.s.w # "")

Truthy(value) ==
    \/ value.t = "bool" /\ value.b
    \/ value.t = "str" /\ ~value.s.slash /\ value.s.w \in OnWords

Falsy(value) ==
    \/ value.t = "bool" /\ ~value.b
    \/ value.t = "str" /\ ~value.s.slash /\ value.s.w \in OffWords

\* C8: an intent whose name is, case-sensitively, one of the available states
\* resolves to exactly that state, whatever other states are declared and in
\* whatever order.
C8_ExactMatchReturned ==
    (rs_pc = "done" /\ Named(rs_value) /\ IntentName(rs_value) \in Range(rs_states))
        => rs_result = IntentName(rs_value)

\* C9: a checked/truthy intent resolves to a state name that is not off-like
\* (never Off, no, false, unchecked or 0 in any letter case, never a null).
C9_TruthyNeverOffLike ==
    (rs_pc = "done" /\ Truthy(rs_value))
        => (rs_result # None /\ ~OffLike(rs_result))

\* C10: an unchecked/falsy intent resolves to an off-like state: one the widget
\* declares whenever it declares one, the synthesized /Off only when it
\* declares none.
C10_FalsyGivesOffState ==
    (rs_pc = "done" /\ Falsy(rs_value))
        => /\ OffLike(rs_result)
           /\ (\E i \in 1..Len(rs_states) : OffLike(rs_states[i]))
                  => rs_result \in Range(rs_states)
           /\ (\A i \in 1..Len(rs_states) : ~OffLike(rs_states[i]))
                  => rs_result = NameOff

\* C10's case: a falsy intent, a widget whose off-like state is neither /Off
\* nor its first state, and that declared state returned.
C10_Witness ==
    /\ rs_pc = "done"
    /\ Falsy(rs_value)
    /\ Len(rs_states) >= 2
    /\ ~OffLike(rs_states[1])
    /\ rs_result \in Range(rs_states)
    /\ rs_result # NameOff
    /\ lower(rs_result) # lower(IF rs_value.t = "str" THEN IntentName(rs_value) ELSE NameOff)

(***************************************************************************)
(* The interactive fill, PdfEngine._write_interactive_pdf.                 *)
(*                                                                         *)
(* A widget annotation carries its own /T (NoT when it has none, as the    *)
(* kid of a named parent field), the page it is on, the keys of its /AP /N *)
(* dictionary, /V, /AS and the /Ff bitmask.                                *)
(***************************************************************************)
NoneValue == [t |-> "none"]

IntValue(n) == [t |-> "int", n |-> n]

Str(w, c) == [pad |-> FALSE, slash |-> FALSE, w |-> w, c |-> c]

Slashed(w, c) == [pad |-> FALSE, slash |-> TRUE, w |-> w, c |-> c]

Padded(w, c) == [pad |-> TRUE, slash |-> FALSE, w |-> w, c |-> c]

\* str(n) of an int of the vocabulary.
IntToStr(n) == Str(IF n = 0 THEN "0" ELSE "1", "l")

Absent == [k |-> "absent"]

NameEntry(n) == [k |-> "name", n |-> n]

TextEntry(s) == [k |-> "text", s |-> s]

NoT == "<no /T>"

FieldNames == {"A", "B"}

Widget(T, page, states, V, AS, Ff) ==
    [T |-> T, page |-> page, states |-> states, V |-> V, AS |-> AS, Ff |-> Ff]

\* PdfEngine._normalize_payload_value
_normalize_payload_value(value) ==
    IF value.t = "bool" THEN [kind |-> "checkbox", value |-> value]
    ELSE IF value.t = "none" THEN [kind |-> "text", value |-> StrValue(Str("", "l"))]
    ELSE IF value.t = "int" THEN [kind |-> "text", value |-> StrValue(IntToStr(value.n))]
    ELSE LET stripped == strip(value.s)
         IN  IF stripped.slash /\ stripped.w # ""
             THEN [kind |-> "checkbox", value |-> StrValue(stripped)]
             ELSE IF ~stripped.slash /\ stripped.w \in CheckboxWords
             THEN [kind |-> "checkbox", value |-> StrValue(stripped)]
             ELSE [kind |-> "text", value |-> StrValue(stripped)]

\* engine.py 166-173: the payload split into the two update maps.
checkbox_updates(payload) ==
    {f \in DOMAIN payload : _normalize_payload_value(payload[f]).kind = "checkbox"}

text_updates(payload) ==
    {f \in DOMAIN payload : _normalize_payload_value(payload[f]).kind = "text"}

\* engine.py 175-177, PdfWriter.update_page_form_field_values: the widget whose
\* /T is a key of text_updates gets the text as its /V.
UpdateTextField(w, payload) ==
    IF w.T \in text_updates(payload)
    THEN [w EXCEPT !.V = TextEntry(_normalize_payload_value(payload[w.T]).value.s)]
    ELSE w

\* A widget updated with /V only: its /AS keeps the template's state.
SetValueOnly(w, resolved_state) ==
    [w EXCEPT !.V = NameEntry(resolved_state)]

\* engine.py 198-203: annotation.update({"/V": resolved_state, "/AS": resolved_state})
SetCheckboxState(w, resolved_state) ==
    [w EXCEPT !.V = NameEntry(resolved_state), !.AS = NameEntry(resolved_state)]

\* engine.py 189-203: the widget whose /T is a key of checkbox_updates is set
\* to the state resolved against its own appearance states.
UpdateCheckbox(w, payload) ==
    IF w.T # NoT /\ w.T \in checkbox_updates(payload)
    THEN SetCheckboxState(w,
            _resolve_checkbox_state(_normalize_payload_value(payload[w.T]).value, w.states))
    ELSE w

OnlyBit1(flags) == 1

\* flags | 1
OrBit1(flags) == IF flags % 2 = 1 THEN flags ELSE flags + 1

\* engine.py 205-209
SetReadOnly(w, read_only) ==
    IF read_only THEN [w EXCEPT !.Ff = OrBit1(w.Ff)] ELSE w

\* A None resolved state cannot be stored in the annotation dictionary: the
\* update raises and no document is written.
FillRaises(template, payload) ==
    \E i \in 1..Len(template) :
        /\ template[i].T # NoT
        /\ template[i].T \in checkbox_updates(payload)
        /\ _resolve_checkbox_state(
               _normalize_payload_value(payload[template[i].T]).value,
               template[i].states) = None

\* PdfEngine._write_interactive_pdf: the document written for one payload.
_write_interactive_pdf(template, payload, read_only) ==
    [widgets |-> [i \in 1..Len(template) |->
                    SetReadOnly(UpdateCheckbox(UpdateTextField(template[i], payload), payload),
                                read_only)],
     NeedAppearances |-> TRUE]

NoDocument == [widgets |-> <<>>, NeedAppearances |-> FALSE]

(***************************************************************************)
(* The fill on its own: a template of up to MaxWidgets widgets, a payload. *)
(***************************************************************************)
MaxWidgets == 2

Pages == {1, 2}

WidgetShapes ==
    { \* a required text field holding a value
      [states |-> <<>>, V |-> TextEntry(Str("male", "l")), AS |-> Absent, Ff |-> 2],
      \* a check box, off
      [states |-> <<NameOff, NameYes>>, V |-> NameEntry(NameOff), AS |-> NameEntry(NameOff), Ff |-> 0],
      \* a check box whose on-state is /yes, declared first, already read-only
      [states |-> <<NameObject("yes", "l"), NameOff>>, V |-> Absent, AS |-> NameEntry(NameOff), Ff |-> 1],
      \* a radio button whose template value and appearance state disagree
      [states |-> <<NameOff, NameObject("male", "C")>>, V |-> NameEntry(NameObject("male", "C")),
       AS |-> NameEntry(NameOff), Ff |-> 0],
      \* a widget that declares the off state only
      [states |-> <<NameOff>>, V |-> NameEntry(NameOff), AS |-> NameEntry(NameOff), Ff |-> 0] }

Widgets ==
    {Widget(T, pg, sh.states, sh.V, sh.AS, sh.Ff) :
        T \in FieldNames \cup {NoT}, pg \in Pages, sh \in WidgetShapes}

Templates ==
    {t \in SeqsUpTo(Widgets, MaxWidgets) :
        \A i \in 1..Len(t) : i > 1 => t[i - 1].page <= t[i].page}

PayloadValuesA ==
    { NoneValue, BoolValue(TRUE), BoolValue(FALSE), IntValue(1),
      StrValue(Str("yes", "l")), StrValue(Padded("no", "C")),
      StrValue(Slashed("yes", "C")), StrValue(Slashed("male", "l")),
      StrValue(Str("male", "l")), StrValue(Str("", "l")) }

PayloadValuesB == { StrValue(Slashed("yes", "C")) }

Payloads ==
    {<<>>}
        \cup {[f \in {"A"} |-> a] : a \in PayloadValuesA}
        \cup {[f \in {"B"} |-> b] : b \in PayloadValuesB}
        \cup {[f \in {"A", "B"} |-> IF f = "A" THEN a ELSE b] : a \in PayloadValuesA, b \in PayloadValuesB}

IdleResolve ==
    /\ rs_states = <<>>
    /\ rs_value = NoneValue
    /\ rs_result = None
    /\ rs_pc = "idle"

IdleFill ==
    /\ fl_template = <<>>
    /\ fl_payload = <<>>
    /\ fl_read_only = FALSE
    /\ fl_output = NoDocument
    /\ fl_pc = "idle"

InitFill ==
    /\ fl_template \in Templates
    /\ fl_payload \in Payloads
    /\ fl_read_only \in BOOLEAN
    /\ fl_output = NoDocument
    /\ fl_pc = "input"

FillDone ==
    /\ fl_pc = "input"
    /\ ~FillRaises(fl_template, fl_payload)
    /\ fl_output' = _write_interactive_pdf(fl_template, fl_payload, fl_read_only)
    /\ fl_pc' = "done"
    /\ UNCHANGED <<fl_template, fl_payload, fl_read_only>>

FillFailed ==
    /\ fl_pc = "input"
    /\ FillRaises(fl_template, fl_payload)
    /\ fl_pc' = "failed"
    /\ UNCHANGED <<fl_template, fl_payload, fl_read_only, fl_output>>

NextFill ==
    \/ FillDone /\ UNCHANGED <<varsResolve, varsMapping, varsCombine, varsGeneration, varsEvaluate, varsFlatten, varsNames>>
    \/ FillFailed /\ UNCHANGED <<varsResolve, varsMapping, varsCombine, varsGeneration, varsEvaluate, varsFlatten, varsNames>>

Fields == {"Female", "Male", "Other"}

EmptyName == ""

\* rules.py _ensure_targets
_ensure_targets(rule_name, targets) ==
    LET resolved == SelectSeq(targets, LAMBDA t : t # EmptyName)
    IN  IF resolved # <<>> THEN resolved ELSE <<rule_name>>

\* rules.py MappingRule.__init__ / __post_init__: options = dict(options) is a
\* new dict, the one identified by oid.
MappingRule(name, rule_type, targets, options, id, oid) ==
    [name |-> name, rule_type |-> rule_type,
     targets |-> _ensure_targets(name, targets),
     options |-> options, id |-> id, oid |-> oid]

\* rules.py MappingRule.from_direct_column
from_direct_column(field_name, column_name, id, oid) ==
    MappingRule(field_name, "value", <<field_name>>, [column |-> column_name], id, oid)

\* list(dict.fromkeys(t for t in targets if t)): the non-empty names, each
\* kept at its first position.
RECURSIVE FromKeys(_)
FromKeys(q) ==
    IF q = <<>> THEN <<>>
    ELSE LET front == FromKeys(SubSeq(q, 1, Len(q) - 1))
             x == q[Len(q)]
         IN  IF x = EmptyName \/ x \in Range(front) THEN front ELSE Append(front, x)

\* manager.py 41-44
NormalizedTargets(field_name, given) ==
    LET targets == FromKeys(given)
        withField == IF field_name \in Range(targets) THEN targets ELSE <<field_name>> \o targets
    IN  IF withField # <<>> THEN withField ELSE <<field_name>>

\* Choice outputs: a per-target map or a scalar.
OutputsMap(m) == [k |-> "map", m |-> m]

OutputsScalar(v) == [k |-> "scalar", v |-> v]

CasesList(items) == [form |-> "list", items |-> items]

CasesMap(m) == [form |-> "map", m |-> m]

\* manager.py 105-118: the case_map built from options["cases"], in either form.
RECURSIVE CaseMapOfList(_)
CaseMapOfList(items) ==
    IF items = <<>> THEN <<>>
    ELSE LET front == CaseMapOfList(SubSeq(items, 1, Len(items) - 1))
             case == items[Len(items)]
             match_value == strip(case.match)
         IN  IF (match_value.w = "" /\ ~match_value.slash) \/ case.outputs.k # "map" THEN front
             ELSE [m \in DOMAIN front \cup {match_value} |->
                      IF m = match_value THEN case.outputs.m ELSE front[m]]

CaseMapOf(cases) ==
    IF cases.form = "map"
    THEN LET keep == {m \in DOMAIN cases.m : cases.m[m].k = "map"}
         IN  [m \in keep |-> cases.m[m].m]
    ELSE CaseMapOfList(cases.items)

\* manager.py MappingModel._ensure_choice_case_map
_ensure_choice_case_map(options) ==
    IF "case_map" \in DOMAIN options /\ DOMAIN options["case_map"] # {} THEN options
    ELSE IF "cases" \notin DOMAIN options THEN options
    ELSE LET case_map == CaseMapOf(options["cases"])
         IN  IF DOMAIN case_map = {} THEN options
             ELSE [o \in DOMAIN options \cup {"case_map"} |->
                      IF o = "case_map" THEN case_map ELSE options[o]]

\* The insertion-ordered dict: entries [key, rule] in insertion order.
Keys(rules) == {rules[i].key : i \in 1..Len(rules)}

Get(rules, key) == (CHOOSE i \in 1..Len(rules) : rules[i].key = key)

RuleAt(rules, key) == rules[Get(rules, key)].rule

Pop(rules, key) == SelectSeq(rules, LAMBDA e : e.key # key)

Put(rules, key, rule) ==
    IF key \in Keys(rules)
    THEN [i \in 1..Len(rules) |-> IF rules[i].key = key THEN [key |-> key, rule |-> rule] ELSE rules[i]]
    ELSE Append(rules, [key |-> key, rule |-> rule])

\* Objects of earlier calls lose their identity when a new call begins.
Aged(rules) ==
    [i \in 1..Len(rules) |-> [rules[i] EXCEPT !.rule.id = 0, !.rule.oid = 0]]

(***************************************************************************)
(* Rule evaluation, mapping/rules.py.  A row maps column names to cells;   *)
(* a cell is a value as above.  The result maps target names to values.    *)
(***************************************************************************)
\* dict.get(key, default)
GetOr(d, key, default) == IF key \in DOMAIN d THEN d[key] ELSE default

\* Cells other than None, str, bool and int: float("nan"), pandas.NaT, a
\* float (its repr), a datetime.datetime, a pandas.Timestamp and a
\* datetime.date (the date as YYYY-MM-DD, the time as HH:MM:SS), and, among
\* the values of an options dictionary, a dict.
NaN == [t |-> "nan"]

NaT == [t |-> "nat"]

FloatValue(repr) == [t |-> "float", repr |-> repr]

DateTimeValue(ymd, hms) == [t |-> "datetime", ymd |-> ymd, hms |-> hms]

TimestampValue(ymd, hms) == [t |-> "timestamp", ymd |-> ymd, hms |-> hms]

DateValue(ymd) == [t |-> "date", ymd |-> ymd]

DictValue(d) == [t |-> "dict", d |-> d]

EmptyStr == StrValue(Str("", "l"))

\* A text outside the vocabulary is its own word, in the case it is written in.
Text(w) == StrValue(Str(w, "l"))

\* str(value).  The text of a dict is its repr, one text per dict.
PyStr(value) ==
    IF value.t = "str" THEN value
    ELSE IF value.t = "none" THEN StrValue(Str("none", "C"))
    ELSE IF value.t = "bool" THEN StrValue(Str(IF value.b THEN "true" ELSE "false", "C"))
    ELSE IF value.t = "int" THEN StrValue(IntToStr(value.n))
    ELSE IF value.t = "nan" THEN Text("nan")
    ELSE IF value.t = "nat" THEN Text("NaT")
    ELSE IF value.t = "float" THEN Text(value.repr)
    ELSE IF value.t = "date" THEN Text(value.ymd)
    ELSE IF value.t \in {"datetime", "timestamp"} THEN Text(value.ymd \o " " \o value.hms)
    ELSE StrValue([repr |-> value.d])

_stringify_with_time(value, default) ==
    IF value.t = "none" THEN default
    ELSE IF value.t = "str" THEN value
    ELSE IF value.t \in {"nan", "nat"} THEN default
    ELSE PyStr(value)

\* RuleEvaluator._stringify
_stringify(value, default) ==
    IF value.t = "none" THEN default
    ELSE IF value.t = "str" THEN value
    ELSE IF value.t \in {"nan", "nat"} THEN default
    ELSE IF value.t \in {"datetime", "timestamp"}
    THEN IF value.hms = "00:00:00" THEN Text(value.ymd)
         ELSE Text(value.ymd \o " " \o value.hms)
    ELSE IF value.t = "date" THEN Text(value.ymd)
    ELSE PyStr(value)

\* RuleEvaluator._prepare_for_format
_prepare_for_format(value) ==
    IF value.t = "timestamp" THEN DateTimeValue(value.ymd, value.hms) ELSE value

\* str.format of a template with the prepared cell as "value": the template
\* "{value}" gives str(value); "{value:%Y-%m-%d}" gives the date of a
\* datetime or date and raises for every other cell (ValueError for a str, a
\* number and NaT, TypeError for None); "{missing}" raises KeyError.
FormatRaises == [ok |-> FALSE]

Formatted(text) == [ok |-> TRUE, text |-> text]

format(template, value) ==
    IF template = "{value}" THEN Formatted(PyStr(value))
    ELSE IF template = "{value:%Y-%m-%d}" /\ value.t \in {"datetime", "date"}
    THEN Formatted(Text(value.ymd))
    ELSE FormatRaises

\* RuleEvaluator._evaluate_value
_evaluate_value(rule, row) ==
    LET options == rule.options
        default == GetOr(options, "default", EmptyStr)
        template == GetOr(options, "format", "")
    IN  IF "column" \notin DOMAIN options \/ GetOr(options, "column", "") = ""
        THEN [t \in Range(rule.targets) |-> default]
        ELSE LET raw == GetOr(row, options["column"], default)
                 formatted == format(template, _prepare_for_format(raw))
             IN  IF template # "" /\ formatted.ok
                 THEN [t \in Range(rule.targets) |-> PyStr(formatted.text)]
                 ELSE [t \in Range(rule.targets) |-> _stringify(raw, default)]

\* RuleEvaluator._evaluate_literal
_evaluate_literal(rule) ==
    LET value == _stringify(GetOr(rule.options, "value", EmptyStr), EmptyStr)
    IN  [t \in Range(rule.targets) |-> value]

\* RuleEvaluator._normalize_choice_output
_normalize_choice_output(rule, selected) ==
    IF selected.k = "map"
    THEN [t \in DOMAIN selected.m |-> _stringify(selected.m[t], EmptyStr)]
    ELSE [t \in Range(rule.targets) |-> _stringify(selected.v, EmptyStr)]

\* RuleEvaluator._evaluate_choice: "raw_value in cases" and "str(raw_value)
\* in cases" find a key of a mapping; a list of case objects holds no
\* element equal to a cell or to a str.
_evaluate_choice(rule, row) ==
    LET options == rule.options
        cases == GetOr(options, "cases", CasesMap(<<>>))
        default == GetOr(options, "default", OutputsMap(<<>>))
        raw_value == IF "source" \in DOMAIN options
                     THEN GetOr(row, options["source"], NoneValue)
                     ELSE NoneValue
    IN  IF cases.form = "map" /\ raw_value.t = "str" /\ raw_value.s \in DOMAIN cases.m
        THEN _normalize_choice_output(rule, cases.m[raw_value.s])
        ELSE IF cases.form = "map" /\ PyStr(raw_value).s \in DOMAIN cases.m
        THEN _normalize_choice_output(rule, cases.m[PyStr(raw_value).s])
        ELSE _normalize_choice_output(rule, default)

IsEmptyNever(text) == FALSE

\* "not text" of a str
IsEmpty(text) == text = EmptyStr

\* separator.join(parts) of one part or more: one part is that part, more
\* parts are the parts with the separator between neighbours.
join(separator, parts) ==
    IF Len(parts) = 1 THEN parts[1]
    ELSE StrValue([sep |-> separator, parts |-> parts])

\* f"{prefix}{combined}" and f"{combined}{suffix}", each applied when the
\* affix is not empty.
Affixed(prefix, combined, suffix) ==
    IF prefix = "" /\ suffix = "" THEN combined
    ELSE StrValue([prefix |-> prefix, body |-> combined, suffix |-> suffix])

\* RuleEvaluator._evaluate_concat
_evaluate_concat(rule, row) ==
    LET options == rule.options
        columns == GetOr(options, "columns", <<>>)
        separator == GetOr(options, "separator", ", ")
        skip_empty == GetOr(options, "skip_empty", TRUE)
        default == GetOr(options, "default", EmptyStr)
        texts == [i \in 1..Len(columns) |->
                     _stringify(GetOr(row, columns[i], NoneValue), EmptyStr)]
        parts == SelectSeq(texts, LAMBDA text : ~(skip_empty /\ IsEmpty(text)))
        combined == IF Len(parts) > 0 THEN join(separator, parts) ELSE default
        value == Affixed(GetOr(options, "prefix", ""), combined, GetOr(options, "suffix", ""))
    IN  [t \in Range(rule.targets) |-> value]

RuleTypes == {"value", "literal", "choice", "concat"}

\* RuleEvaluator.evaluate raises ValueError for a rule_type that is not a
\* RuleType.
Raises(rule) == rule.rule_type \notin RuleTypes

\* RuleEvaluator.evaluate
evaluate(rule, row) ==
    IF rule.rule_type = "value" THEN _evaluate_value(rule, row)
    ELSE IF rule.rule_type = "literal" THEN _evaluate_literal(rule)
    ELSE IF rule.rule_type = "choice" THEN _evaluate_choice(rule, row)
    ELSE _evaluate_concat(rule, row)

UpdateKeepingOld(payload, fragment) ==
    [t \in DOMAIN payload \cup DOMAIN fragment |->
        IF t \in DOMAIN payload THEN payload[t] ELSE fragment[t]]

\* dict.update
Update(payload, fragment) ==
    [t \in DOMAIN payload \cup DOMAIN fragment |->
        IF t \in DOMAIN fragment THEN fragment[t] ELSE payload[t]]

\* rules.py evaluate_rules: the fragments of rules 1..i merged in order.
RECURSIVE evaluate_rules(_, _, _)
evaluate_rules(rules, row, i) ==
    IF i = 0 THEN <<>>
    ELSE Update(evaluate_rules(rules, row, i - 1), evaluate(rules[i], row))

\* The rule argument of assign: a MappingRule object of the caller (identities
\* 1 and 2) or a column name.
RuleArg(rule_type, targets, options) ==
    [kind |-> "rule", rule_type |-> rule_type, targets |-> targets, options |-> options,
     id |-> 1, oid |-> 2]

ColumnArg(column) == [kind |-> "column", column |-> column]

\* manager.py 30-47: the normalized rule (identities 3 and 4).
Normalized(field_name, arg) ==
    LET base == IF arg.kind = "rule"
                THEN MappingRule(field_name, arg.rule_type, arg.targets, arg.options, 3, 4)
                ELSE from_direct_column(field_name, arg.column, 3, 4)
        options == IF base.rule_type = "choice"
                   THEN _ensure_choice_case_map(base.options)
                   ELSE base.options
    IN  [base EXCEPT !.targets = NormalizedTargets(field_name, base.targets),
                     !.options = options]

\* A clone that keeps the normalized rule's name.
CloneSameName(normalized, i) ==
    MappingRule(normalized.name, normalized.rule_type, normalized.targets,
                normalized.options, 3 + 2 * i, 4 + 2 * i)

\* manager.py 61-66: the clone stored under the i-th target.
Clone(normalized, i) ==
    MappingRule(normalized.targets[i], normalized.rule_type, normalized.targets,
                normalized.options, 3 + 2 * i, 4 + 2 * i)

\* manager.py 60-67: the clones stored for targets 1..i, in order.
RECURSIVE PutClones(_, _, _)
PutClones(rules, normalized, i) ==
    IF i = 0 THEN rules
    ELSE Put(PutClones(rules, normalized, i - 1), normalized.targets[i], Clone(normalized, i))

\* A stale key is dropped whatever rule it holds.
IsPrunedAnyRule(entry, field_name, previous_targets, new_target_set) ==
    /\ entry.key \in previous_targets \ new_target_set
    /\ entry.key # field_name

\* manager.py 51-57: the entry is popped when its key is stale and it still
\* holds a rule with the previous rule's target set.
IsPruned(entry, field_name, previous_targets, new_target_set) ==
    /\ entry.key \in previous_targets \ new_target_set
    /\ entry.key # field_name
    /\ Range(entry.rule.targets) = previous_targets

\* MappingModel.assign
assign(rules, field_name, arg) ==
    LET normalized == Normalized(field_name, arg)
        previous_targets == IF field_name \in Keys(rules)
                            THEN Range(RuleAt(rules, field_name).targets)
                            ELSE {}
        new_target_set == Range(normalized.targets)
        kept == SelectSeq(rules,
                    LAMBDA e : ~IsPruned(e, field_name, previous_targets, new_target_set))
    IN  PutClones(kept, normalized, Len(normalized.targets))

\* MappingModel.remove
remove(rules, field_name) == Pop(rules, field_name)

\* MappingModel.iter_rules
iter_rules(rules) == [i \in 1..Len(rules) |-> rules[i].rule]

\* rules.py MappingRule.to_json
to_json(rule) ==
    [name |-> rule.name, type |-> rule.rule_type, targets |-> rule.targets,
     options |-> rule.options]

from_json_without_options(payload, i) ==
    MappingRule(payload.name, payload.type, payload.targets, <<>>, 2 * i - 1, 2 * i)

\* rules.py MappingRule.from_json: the i-th rule object of a mapping file.
from_json(payload, i) ==
    MappingRule(payload.name, payload.type, payload.targets, payload.options, 2 * i - 1, 2 * i)

\* manager.py MappingManager.save, 135: the rule objects of the file, in the
\* order of rules.values().
save(rules) == [i \in 1..Len(rules) |-> to_json(rules[i].rule)]

\* manager.py MappingManager.load, 145-149: rules[rule.name] = rule for every
\* rule object of the file, in file order.
RECURSIVE load(_, _)
load(rules_payload, i) ==
    IF i = 0 THEN <<>>
    ELSE LET rule == from_json(rules_payload[i], i)
         IN  Put(load(rules_payload, i - 1), rule.name, rule)

(***************************************************************************)
(* The mapping model on its own: up to MaxOps calls of load, assign and     *)
(* remove.                                                                 *)
(***************************************************************************)
MaxOps == 2

MaxTargets == 2

TargetLists == SeqsUpTo(Fields \cup {EmptyName}, MaxTargets)

OutputsF ==
    OutputsMap([t \in {"Female", "Male"} |->
                   IF t = "Female" THEN StrValue(Str("yes", "C")) ELSE StrValue(Str("", "l"))])

OutputsDefault ==
    OutputsMap([t \in {"Female", "Male"} |-> StrValue(Str("", "l"))])

ValueOptions == [column |-> "Name"]

ChoiceOptions ==
    [source |-> "Gender",
     cases |-> CasesList(<<[match |-> Str("f", "C"), outputs |-> OutputsF]>>),
     default |-> OutputsDefault]

RuleArgs ==
    {RuleArg("value", t, ValueOptions) : t \in TargetLists}
        \cup {RuleArg("choice", t, ChoiceOptions) : t \in TargetLists}
        \cup {ColumnArg("Name")}

\* Mapping files the application has saved.  SavedPair: after
\* assign(Female, choice rule for Female and Male).  SavedThree: after
\* assign(Female, choice rule for Female, Male and Other), remove(Male),
\* assign(Male, column Name).
JsonRule(name, type, targets, options) ==
    [name |-> name, type |-> type, targets |-> targets, options |-> options]

SavedPair ==
    << JsonRule("Female", "choice", <<"Female", "Male">>, _ensure_choice_case_map(ChoiceOptions)),
       JsonRule("Male", "choice", <<"Female", "Male">>, _ensure_choice_case_map(ChoiceOptions)) >>

SavedThree ==
    << JsonRule("Female", "choice", <<"Female", "Male", "Other">>, _ensure_choice_case_map(ChoiceOptions)),
       JsonRule("Other", "choice", <<"Female", "Male", "Other">>, _ensure_choice_case_map(ChoiceOptions)),
       JsonRule("Male", "value", <<"Male">>, ValueOptions) >>

MappingFiles == {SavedPair, SavedThree}

Rows ==
    { [c \in {"Name", "Gender"} |-> IF c = "Name" THEN StrValue(Str("male", "l")) ELSE StrValue(Str("f", "C"))],
      [c \in {"Name"} |-> NoneValue] }

NoCall == [op |-> "none"]

IdleMapping ==
    /\ mp_rules = <<>>
    /\ mp_last = NoCall
    /\ mp_ops = 0

InitMapping == IdleMapping

\* A call is made when the previous one has returned to its caller.
Assign(field_name, arg) ==
    /\ mp_ops < MaxOps
    /\ mp_last = NoCall
    /\ mp_rules' = assign(mp_rules, field_name, arg)
    /\ mp_last' = [op |-> "assign", field |-> field_name, arg |-> arg, pre |-> mp_rules]
    /\ mp_ops' = mp_ops + 1

Remove(field_name) ==
    /\ mp_ops < MaxOps
    /\ mp_last = NoCall
    /\ mp_rules' = remove(mp_rules, field_name)
    /\ mp_last' = [op |-> "remove", field |-> field_name, pre |-> mp_rules]
    /\ mp_ops' = mp_ops + 1

\* main_window.py 1823-1829: the model is replaced by the one loaded from a file.
Load(file) ==
    /\ mp_ops < MaxOps
    /\ mp_last = NoCall
    /\ mp_rules' = load(file, Len(file))
    /\ mp_last' = [op |-> "load", pre |-> mp_rules]
    /\ mp_ops' = mp_ops + 1

\* The model is saved to a file and replaced by the one loaded from it.
Reload ==
    /\ mp_ops < MaxOps
    /\ mp_last = NoCall
    /\ mp_rules # <<>>
    /\ mp_rules' = load(save(mp_rules), Len(mp_rules))
    /\ mp_last' = [op |-> "reload", pre |-> mp_rules]
    /\ mp_ops' = mp_ops + 1

\* The caller drops the rule it passed; the objects of the call become old.
EndCall ==
    /\ mp_last # NoCall
    /\ mp_rules' = Aged(mp_rules)
    /\ mp_last' = NoCall
    /\ UNCHANGED mp_ops

NextMapping ==
    \/ \E f \in Fields, arg \in RuleArgs : Assign(f, arg) /\ UNCHANGED <<varsResolve, varsFill, varsCombine, varsGeneration, varsEvaluate, varsFlatten, varsNames>>
    \/ \E f \in Fields : Remove(f) /\ UNCHANGED <<varsResolve, varsFill, varsCombine, varsGeneration, varsEvaluate, varsFlatten, varsNames>>
    \/ \E file \in MappingFiles : Load(file) /\ UNCHANGED <<varsResolve, varsFill, varsCombine, varsGeneration, varsEvaluate, varsFlatten, varsNames>>
    \/ Reload /\ UNCHANGED <<varsResolve, varsFill, varsCombine, varsGeneration, varsEvaluate, varsFlatten, varsNames>>
    \/ EndCall /\ UNCHANGED <<varsResolve, varsFill, varsCombine, varsGeneration, varsEvaluate, varsFlatten, varsNames>>

(***************************************************************************)
(* Properties of the mapping model.                                        *)
(***************************************************************************)
\* The target list the normalized rule is to have: the given targets without
\* empty names, each name kept where it first occurs, the field in front
\* when it is not among them.
RECURSIVE FirstOccurrences(_)
FirstOccurrences(q) ==
    IF q = <<>> THEN <<>>
    ELSE <<Head(q)>> \o FirstOccurrences(SelectSeq(Tail(q), LAMBDA x : x # Head(q)))

ExpectedTargets(field_name, given) ==
    LET named == FirstOccurrences(SelectSeq(given, LAMBDA t : t # EmptyName))
    IN  IF field_name \in Range(named) THEN named ELSE <<field_name>> \o named

GivenTargets(call) ==
    IF call.arg.kind = "rule" THEN call.arg.targets ELSE <<call.field>>

GivenType(call) ==
    IF call.arg.kind = "rule" THEN call.arg.rule_type ELSE "value"

AfterAssign == mp_last.op = "assign"

\* C1: right after assign(field, rule), every target t of the normalized rule
\* has an entry rules[t] named t with the rule's type, the same non-empty
\* ordered target list (which holds field) and options equal to those under
\* field; each entry is its own rule object with its own options object,
\* allocated by this call, and none is the caller's.
C1_AssignStoresACopyPerTarget ==
    AfterAssign =>
        LET field == mp_last.field
            targets == ExpectedTargets(field, GivenTargets(mp_last))
        IN  /\ targets # <<>>
            /\ field \in Range(targets)
            /\ \A t \in Range(targets) :
                   /\ t \in Keys(mp_rules)
                   /\ RuleAt(mp_rules, t).name = t
                   /\ RuleAt(mp_rules, t).rule_type = GivenType(mp_last)
                   /\ RuleAt(mp_rules, t).targets = targets
                   /\ RuleAt(mp_rules, t).options = RuleAt(mp_rules, field).options
                   /\ RuleAt(mp_rules, t).id \notin {0, 1}
                   /\ RuleAt(mp_rules, t).oid \notin {0, 2}
            /\ \A t, u \in Range(targets) :
                   t # u => /\ RuleAt(mp_rules, t).id # RuleAt(mp_rules, u).id
                            /\ RuleAt(mp_rules, t).oid # RuleAt(mp_rules, u).oid

\* C1's case: a choice rule whose targets hold an empty name and do not list
\* the field was assigned over a non-empty model and now sits under two keys.
C1_Witness ==
    /\ AfterAssign
    /\ mp_last.pre # <<>>
    /\ mp_last.arg.kind = "rule"
    /\ mp_last.arg.rule_type = "choice"
    /\ EmptyName \in Range(mp_last.arg.targets)
    /\ mp_last.field \notin Range(mp_last.arg.targets)
    /\ Len(RuleAt(mp_rules, mp_last.field).targets) = 2
    /\ "case_map" \in DOMAIN RuleAt(mp_rules, mp_last.field).options

\* A re-assignment under a field whose rule had target set T, with a smaller
\* target set T' that still holds the field.
PrevTargets == Range(RuleAt(mp_last.pre, mp_last.field).targets)

NewTargets == Range(ExpectedTargets(mp_last.field, GivenTargets(mp_last)))

Reassigned ==
    /\ AfterAssign
    /\ mp_last.field \in Keys(mp_last.pre)
    /\ NewTargets \subseteq PrevTargets
    /\ NewTargets # PrevTargets

HeldSharedRule(key) ==
    key \in Keys(mp_last.pre) /\ Range(RuleAt(mp_last.pre, key).targets) = PrevTargets

StaleCopiesGone ==
    \A key \in PrevTargets \ NewTargets : HeldSharedRule(key) => key \notin Keys(mp_rules)

LeftAsItWas(key) ==
    key \in Keys(mp_rules) /\ RuleAt(mp_rules, key) = RuleAt(mp_last.pre, key)

\* C2 as stated: after the re-assignment every stale key that still held the
\* shared rule is gone, and every entry that was not a copy of the shared
\* rule (its target set differs from T) is exactly as it was.
C2_ReassignPrunesOnlyCopies ==
    Reassigned =>
        /\ StaleCopiesGone
        /\ \A key \in Keys(mp_last.pre) : ~HeldSharedRule(key) => LeftAsItWas(key)

\* C2 amended: after the re-assignment every stale key that still held the
\* shared rule is gone, and every entry that was not a copy of the shared
\* rule and whose key is not a target of the new rule is exactly as it was
\* (an entry under a key of T' is replaced by the new rule's copy).
C2_ReassignPrunesOnlyCopiesOutsideNewTargets ==
    Reassigned =>
        /\ StaleCopiesGone
        /\ \A key \in Keys(mp_last.pre) \ NewTargets : ~HeldSharedRule(key) => LeftAsItWas(key)

\* C2's case: one stale key held a copy and was pruned, another stale key
\* held a different rule and kept it.
C2_Witness ==
    /\ Reassigned
    /\ \E key \in PrevTargets \ NewTargets : HeldSharedRule(key) /\ key \notin Keys(mp_rules)
    /\ \E key \in PrevTargets \ NewTargets :
           key \in Keys(mp_last.pre) /\ ~HeldSharedRule(key) /\ LeftAsItWas(key)

\* C3: after remove(t) of one target of a rule assigned to several targets,
\* no entry of the model lists t among its targets, and evaluating
\* iter_rules() writes no value to t.
C3_RemoveDropsWholeReferenceSet ==
    (/\ mp_last.op = "remove"
     /\ mp_last.field \in Keys(mp_last.pre)
     /\ Len(RuleAt(mp_last.pre, mp_last.field).targets) >= 2)
        => /\ \A i \in 1..Len(mp_rules) : mp_last.field \notin Range(mp_rules[i].rule.targets)
           /\ \A row \in Rows :
                  mp_last.field \notin DOMAIN evaluate_rules(iter_rules(mp_rules), row, Len(mp_rules))

(***************************************************************************)
(* Output file names: FilenameBuilder (ui/main_window.py) and the path     *)
(* fill_rows derives from the name (pdf/engine.py 113-125).  A text is a    *)
(* sequence of characters.  The builder has one column, no prefix, no      *)
(* suffix and the separator "_"; the rows have no index field.             *)
(***************************************************************************)
_MAX_FILENAME_LENGTH == 120

MaxCalls == 3

\* s[:n]
Take(s, n) == SubSeq(s, 1, IF Len(s) < n THEN Len(s) ELSE n)

RECURSIVE RStrip(_, _)
RStrip(s, chars) ==
    IF s # <<>> /\ s[Len(s)] \in chars THEN RStrip(SubSeq(s, 1, Len(s) - 1), chars) ELSE s

RECURSIVE LStrip(_, _)
LStrip(s, chars) ==
    IF s # <<>> /\ Head(s) \in chars THEN LStrip(Tail(s), chars) ELSE s

\* str.strip(chars)
StripChars(s, chars) == LStrip(RStrip(s, chars), chars)

Whitespace == {" "}

SafeChars == {"a", "b", "0", "2", "3", ".", "_", "-"}

\* pattern.sub("_", text) for a pattern that matches the runs of characters
\* of one class.
RECURSIVE SubRuns(_, _)
SubRuns(text, class) ==
    IF text = <<>> THEN <<>>
    ELSE IF Head(text) \in class
    THEN <<"_">> \o SubRuns(LStrip(text, class), class)
    ELSE <<Head(text)>> \o SubRuns(Tail(text), class)

Digits == <<"0", "1", "2", "3", "4", "5", "6", "7", "8", "9">>

\* f"{index:05d}" for an index below ten
Index05d(index) == <<"0", "0", "0", "0", Digits[index + 1]>>

\* f"{count+1:02d}" for a number below ten
Count02d(n) == <<"0", Digits[n + 1]>>

NoCell == <<"<None>">>

\* main_window.py _sanitize_filename_token
_sanitize_filename_token(value) ==
    IF value = NoCell THEN <<>>
    ELSE LET text == StripChars(value, Whitespace)
         IN  IF text = <<>> THEN <<>>
             ELSE LET spaced == SubRuns(text, Whitespace)
                      safe == SubRuns(spaced, Range(spaced) \ SafeChars)
                  IN  Take(StripChars(safe, {"_"}), _MAX_FILENAME_LENGTH)

\* FilenameBuilder._compose_base for the one column: the token of the cell,
\* or the index when the cell gives no token.
_compose_base(cell, index) ==
    LET token == _sanitize_filename_token(cell)
        tokens == IF token # <<>> THEN token ELSE Index05d(index)
    IN  StripChars(tokens, {"_", "-", ".", " "})

\* FilenameBuilder.__call__: the name returned and the counts after the call.
NameOfCall(counts, cell, index) ==
    LET base == _compose_base(cell, index)
        normalized == Take(IF base # <<>> THEN base ELSE Index05d(index), _MAX_FILENAME_LENGTH)
        count == IF normalized \in DOMAIN counts THEN counts[normalized] ELSE 0
        numbered == <<"_">> \o Count02d(count + 1)
        available == IF _MAX_FILENAME_LENGTH - Len(numbered) > 1
                     THEN _MAX_FILENAME_LENGTH - Len(numbered) ELSE 1
        trimmed == RStrip(Take(normalized, available), {"_", "-", ".", " "})
    IN  [name |-> IF count # 0 THEN trimmed \o numbered ELSE normalized,
         counts |-> [k \in DOMAIN counts \cup {normalized} |->
                        IF k = normalized THEN count + 1 ELSE counts[k]]]

\* engine.py 117-125: the file of a row, from the name the builder returned.
OutputPath(name, index) ==
    LET filename_value == StripChars(name, Whitespace)
        sanitized == StripChars([k \in 1..Len(filename_value) |->
                        IF filename_value[k] \in {"/", "\\"} THEN "_" ELSE filename_value[k]],
                        Whitespace)
    IN  (IF sanitized # <<>> THEN sanitized ELSE Index05d(index)) \o <<".", "p", "d", "f">>

FileCells ==
    { <<"a">>, <<"a", "_", "0", "2">>, <<"a", " ", "0", "2">>, <<"b">>, <<>>, NoCell }

IdleNames ==
    /\ nm_rows = <<>>
    /\ nm_index = 0
    /\ nm_counts = <<>>
    /\ nm_names = <<>>
    /\ nm_disk = <<>>
    /\ nm_pc = "idle"

\* A new builder and the rows of one fill_rows call.
InitNames ==
    /\ nm_rows \in SeqsUpTo(FileCells, MaxCalls)
    /\ nm_index = 1
    /\ nm_counts = <<>>
    /\ nm_names = <<>>
    /\ nm_disk = <<>>
    /\ nm_pc = "rows"

\* engine.py 104-144, one row of the loop of fill_rows: the builder is
\* called, the file of the row is written to the path made of the name.
WriteRow ==
    /\ nm_pc = "rows"
    /\ nm_index <= Len(nm_rows)
    /\ LET call == NameOfCall(nm_counts, nm_rows[nm_index], nm_index)
           path == OutputPath(call.name, nm_index)
       IN  /\ nm_counts' = call.counts
           /\ nm_names' = Append(nm_names, call.name)
           /\ nm_disk' = [p \in DOMAIN nm_disk \cup {path} |->
                            IF p = path THEN nm_index ELSE nm_disk[p]]
    /\ nm_index' = nm_index + 1
    /\ UNCHANGED <<nm_rows, nm_pc>>

\* engine.py 149: return outputs
ReturnOutputs ==
    /\ nm_pc = "rows"
    /\ nm_index > Len(nm_rows)
    /\ nm_pc' = "done"
    /\ UNCHANGED <<nm_rows, nm_index, nm_counts, nm_names, nm_disk>>

NextNames ==
    \/ WriteRow /\ UNCHANGED <<varsResolve, varsFill, varsMapping, varsCombine, varsGeneration, varsEvaluate, varsFlatten>>
    \/ ReturnOutputs /\ UNCHANGED <<varsResolve, varsFill, varsMapping, varsCombine, varsGeneration, varsEvaluate, varsFlatten>>

\* C23: the names one builder returns for the rows of a job are pairwise
\* distinct, and the file of no row is overwritten by the file of another.
C23_FilenamesPairwiseDistinct ==
    /\ Distinct(nm_names)
    /\ \A i \in 1..Len(nm_names) : nm_disk[OutputPath(nm_names[i], i)] = i

(***************************************************************************)
(* The combined job: PdfGenerationWorker._generate_combined fills one      *)
(* scratch document per row, renames the fields of each scratch document   *)
(* and appends its pages to one writer (ui/workers.py).                    *)
(*                                                                         *)
(* A field name is a sequence: the base name followed by the suffixes      *)
(* "_entry0001", "_entry0002", ... appended to it, so <<"A", 1>> is the    *)
(* name "A_entry0001".  An object of a document is a field dictionary or a *)
(* widget annotation or both: T is its /T entry (NoName when absent),      *)
(* parent the object whose /Kids lists it (0 for none), page the page      *)
(* whose /Annots lists it (0 for none), top whether the AcroForm's /Fields *)
(* lists it, Ff its /Ff flags.                                             *)
(***************************************************************************)
MaxRows == 2

MaxItems == 2

NoName == <<>>

suffix(index) == index

WithSuffix(name, sfx) == Append(name, sfx)

FieldNameSet == {<<"A">>, <<"B">>, <<"A", 1>>}

PageCounts == {1, 2}

\* An object of a document: its /T, its /Parent, the page that lists it, whether
\* /Fields lists it, its /Ff, and the row whose values it holds (0 in the
\* template).
Obj(T, parent, page, top) ==
    [T |-> T, parent |-> parent, page |-> page, top |-> top, Ff |-> 0, row |-> 0]

\* The building blocks of a template: a widget that is itself a field of
\* /Fields, a widget that only its page lists, and a field of /Fields whose
\* one kid is the widget (the kid with or without a /T of its own).
\* The /Ff of a template's widget: none (read as 0) or Required (2).
TemplateFlags == {0, 2}

Items ==
    [kind : {"widget", "annot"}, T : FieldNameSet, kid : {NoName}, Ff : TemplateFlags]
        \cup [kind : {"group"}, T : FieldNameSet, kid : {NoName, <<"A">>}, Ff : TemplateFlags]

RECURSIVE Objects(_, _, _)
Objects(items, P, k) ==
    IF k = 0 THEN <<>>
    ELSE LET before == Objects(items, P, k - 1)
             it == items[k]
             pg == ((k - 1) % P) + 1
         IN  IF it.kind = "widget"
             THEN Append(before, [Obj(it.T, 0, pg, TRUE) EXCEPT !.Ff = it.Ff])
             ELSE IF it.kind = "annot"
             THEN Append(before, [Obj(it.T, 0, pg, FALSE) EXCEPT !.Ff = it.Ff])
             ELSE before \o <<[Obj(it.T, 0, 0, TRUE) EXCEPT !.Ff = it.Ff],
                               [Obj(it.kid, Len(before) + 1, pg, FALSE) EXCEPT !.Ff = it.Ff]>>

RECURSIVE FullName(_, _)
FullName(objs, o) ==
    LET own == IF objs[o].T = NoName THEN <<>> ELSE <<objs[o].T>>
    IN  IF objs[o].parent = 0 THEN own ELSE FullName(objs, objs[o].parent) \o own

FormFields(objs) == {o \in 1..Len(objs) : objs[o].T # NoName}

\* Templates whose fields have pairwise different names.
CombineTemplates ==
    {items \in SeqsUpTo(Items, MaxItems) :
        /\ Len(items) >= 1
        /\ LET objs == Objects(items, 1, Len(items))
           IN  \A f, g \in FormFields(objs) : f # g => FullName(objs, f) # FullName(objs, g)}

Bind(map, key, value) ==
    [x \in DOMAIN map \cup {key} |-> IF x = key THEN value ELSE map[x]]

RECURSIVE _rename_field(_, _, _)
RECURSIVE RenameKids(_, _, _, _)
_rename_field(st, o, sfx) ==
    LET original == st.objs[o].T
        new_name == WithSuffix(original, sfx)
        renamed == IF original # NoName
                   THEN [objs |-> [st.objs EXCEPT ![o].T = new_name],
                         field_map |-> Bind(st.field_map, original, new_name)]
                   ELSE st
    IN  RenameKids(renamed, o, sfx, Len(st.objs))

RenameKids(st, o, sfx, k) ==
    IF k = 0 THEN st
    ELSE LET before == RenameKids(st, o, sfx, k - 1)
         IN  IF st.objs[k].parent = o THEN _rename_field(before, k, sfx) ELSE before

\* for field in list(fields): _rename_field(field)
RECURSIVE RenameAcroFormFields(_, _, _)
RenameAcroFormFields(st, sfx, k) ==
    IF k = 0 THEN st
    ELSE LET before == RenameAcroFormFields(st, sfx, k - 1)
         IN  IF st.objs[k].top THEN _rename_field(before, k, sfx) ELSE before

\* The annotations of the document in page order, then /Annots order.
RECURSIVE OnPage(_, _, _)
OnPage(objs, page, k) ==
    IF k = 0 THEN <<>>
    ELSE IF objs[k].page = page THEN Append(OnPage(objs, page, k - 1), k)
    ELSE OnPage(objs, page, k - 1)

RECURSIVE Annotations(_, _)
Annotations(objs, P) ==
    IF P = 0 THEN <<>> ELSE Annotations(objs, P - 1) \o OnPage(objs, P, Len(objs))

RenameAnnotation(st, o, sfx, read_only) ==
    LET name_str == st.objs[o].T
        known == name_str \in DOMAIN st.field_map
        new_name == IF known THEN st.field_map[name_str] ELSE WithSuffix(name_str, sfx)
    IN  IF name_str = NoName THEN st
        ELSE [objs |-> [st.objs EXCEPT ![o].T = new_name,
                                       ![o].Ff = IF read_only THEN OrBit1(@) ELSE @],
              field_map |-> IF known THEN st.field_map ELSE Bind(st.field_map, name_str, new_name)]

RECURSIVE RenameAnnotations(_, _, _, _, _)
RenameAnnotations(st, annots, sfx, read_only, k) ==
    IF k = 0 THEN st
    ELSE RenameAnnotation(RenameAnnotations(st, annots, sfx, read_only, k - 1),
                          annots[k], sfx, read_only)

EmptyMap == [x \in {} |-> NoName]

_rename_form_fields(objs, P, sfx, read_only) ==
    LET pass1 == RenameAcroFormFields([objs |-> objs, field_map |-> EmptyMap], sfx, Len(objs))
        annots == Annotations(objs, P)
    IN  RenameAnnotations(pass1, annots, sfx, read_only, Len(annots)).objs

_set_read_only(objs) ==
    [o \in 1..Len(objs) |-> IF objs[o].page # 0 THEN [objs[o] EXCEPT !.Ff = OrBit1(@)] ELSE objs[o]]

\* The scratch document fill_rows writes for one row: the template's objects,
\* every annotation read-only when read_only is set.
ScratchDocument(objs, read_only) == IF read_only THEN _set_read_only(objs) ELSE objs

\* combined_writer = PdfWriter(): no page, and a catalog without /AcroForm.
PdfWriter == [pages |-> 0, docs |-> <<>>, AcroForm |-> FALSE, NeedAppearances |-> FALSE]

IdleCombine ==
    /\ cb_template = <<>>
    /\ cb_page_count = 0
    /\ cb_rows = 0
    /\ cb_read_only = FALSE
    /\ cb_outputs = <<>>
    /\ cb_index = 0
    /\ cb_writer = PdfWriter
    /\ cb_pc = "idle"

InitCombine ==
    /\ \E items \in CombineTemplates, P \in PageCounts :
          /\ cb_template = Objects(items, P, Len(items))
          /\ cb_page_count = P
    /\ cb_rows \in 1..MaxRows
    /\ cb_read_only \in BOOLEAN
    /\ cb_outputs = <<>>
    /\ cb_index = 0
    /\ cb_writer = PdfWriter
    /\ cb_pc = "fill"

\* The names a new builder returns for the cells of the rows, in row order.
RECURSIVE BuilderCalls(_, _)
BuilderCalls(cells, k) ==
    IF k = 0 THEN [names |-> <<>>, counts |-> <<>>]
    ELSE LET before == BuilderCalls(cells, k - 1)
             call == NameOfCall(before.counts, cells[k], k)
         IN  [names |-> Append(before.names, call.name), counts |-> call.counts]

\* engine.py 125-142: outputs[i] is the path of row i; the file at that path
\* is the one the last row with that path wrote.
LastWriterOf(paths, i) ==
    CHOOSE j \in 1..Len(paths) :
        /\ paths[j] = paths[i]
        /\ \A k \in 1..Len(paths) : paths[k] = paths[i] => k <= j

\* The document of a row's fill: the values of the row in every object.
Filled(objs, row) == [o \in 1..Len(objs) |-> [objs[o] EXCEPT !.row = row]]

CombineCells == {<<"a">>, <<"a", "_", "0", "2">>}

\* outputs = self._engine.fill_rows(...): every row is filled, in row order,
\* into the scratch file of its name; outputs lists one path per row.
FillRows ==
    /\ cb_pc = "fill"
    /\ \E cells \in [1..cb_rows -> CombineCells] :
          LET names == BuilderCalls(cells, cb_rows).names
              paths == [i \in 1..cb_rows |-> OutputPath(names[i], i)]
          IN  cb_outputs' = [i \in 1..cb_rows |->
                  Filled(ScratchDocument(cb_template, cb_read_only), LastWriterOf(paths, i))]
    /\ cb_index' = 1
    /\ cb_pc' = "merge"
    /\ UNCHANGED <<cb_template, cb_page_count, cb_rows, cb_read_only, cb_writer>>

\* One turn of "for index, pdf_path in enumerate(outputs, start=1)".
MergeEntry ==
    /\ cb_pc = "merge"
    /\ LET reader == cb_outputs[cb_index]
           renamed == _rename_form_fields(reader, cb_page_count, suffix(cb_index), cb_read_only)
           locked == IF cb_read_only THEN _set_read_only(renamed) ELSE renamed
       IN  cb_writer' = [cb_writer EXCEPT !.pages = @ + cb_page_count,
                                          !.docs = Append(@, locked)]
    /\ IF cb_index < Len(cb_outputs)
       THEN cb_index' = cb_index + 1 /\ cb_pc' = "merge"
       ELSE cb_index' = cb_index /\ cb_pc' = "write"
    /\ UNCHANGED <<cb_template, cb_page_count, cb_rows, cb_read_only, cb_outputs>>

\* workers.py 128-131: /NeedAppearances is set in the /AcroForm of the
\* writer's catalog when the catalog has one, and nowhere otherwise.
SetNeedAppearances(writer, acro_ref) ==
    [writer EXCEPT !.AcroForm = acro_ref, !.NeedAppearances = acro_ref]

\* workers.py 128-136: the flag, combined_writer.write(output_handle), then
\* the appearance refresh.  append_pages_from_reader is the only call made on
\* the writer; whether its catalog has an /AcroForm after it is the PDF
\* library's doing.
WriteCombined ==
    /\ cb_pc = "write"
    /\ \E acro_ref \in BOOLEAN : cb_writer' = SetNeedAppearances(cb_writer, acro_ref)
    /\ cb_pc' = "done"
    /\ UNCHANGED <<cb_template, cb_page_count, cb_rows, cb_read_only, cb_outputs, cb_index>>

NextCombine ==
    \/ FillRows /\ UNCHANGED <<varsResolve, varsFill, varsMapping, varsGeneration, varsEvaluate, varsFlatten, varsNames>>
    \/ MergeEntry /\ UNCHANGED <<varsResolve, varsFill, varsMapping, varsGeneration, varsEvaluate, varsFlatten, varsNames>>
    \/ WriteCombined /\ UNCHANGED <<varsResolve, varsFill, varsMapping, varsGeneration, varsEvaluate, varsFlatten, varsNames>>

\* The fields of the combined document: (row, object) for every object with a /T.
MergedFields ==
    {f \in (1..Len(cb_writer.docs)) \X (1..Len(cb_template)) :
        cb_writer.docs[f[1]][f[2]].T # NoName}

MergedName(f) == FullName(cb_writer.docs[f[1]], f[2])

\* name is original followed by one or more copies of sfx
RECURSIVE Suffixed(_, _, _)
Suffixed(name, original, sfx) ==
    /\ Len(name) > Len(original)
    /\ name[Len(name)] = sfx
    /\ LET front == SubSeq(name, 1, Len(name) - 1)
       IN  front = original \/ Suffixed(front, original, sfx)

\* C4: a combined job over a template of P pages and F fields and N rows writes
\* one document of N*P pages and N*F fields, no two fields of it share a name,
\* and every field of row i carries the suffix of row i.
C4_CombinedFieldsAreUnique ==
    cb_pc = "done" =>
        /\ cb_writer.pages = cb_rows * cb_page_count
        /\ Cardinality(MergedFields) = cb_rows * Cardinality(FormFields(cb_template))
        /\ \A f, g \in MergedFields : f # g => MergedName(f) # MergedName(g)
        /\ \A f \in MergedFields :
               Suffixed(cb_writer.docs[f[1]][f[2]].T, cb_template[f[2]].T, suffix(f[1]))

(***************************************************************************)
(* The generation job: the job slot of MainWindow (ui/main_window.py), the *)
(* worker it starts on a thread of its own (ui/workers.py) and the files   *)
(* the worker writes.  The window's handlers run on the main thread, one   *)
(* at a time; the steps of a worker run interleave with them.              *)
(*                                                                         *)
(* A job is named by its number 1, 2, ...: its QThread, its worker and its *)
(* progress dialog carry that number, and 0 is None.                       *)
(***************************************************************************)
MaxJobs == 2

Modes == {"per_entry", "combined"}

\* What the filename builder gives the rows of a job: a name per row index,
\* or one name for every row.
Naming == {"index", "same"}

NoFile == [st |-> "absent", job |-> 0, row |-> 0]

Paths == 0..MaxRows

NoCancel == [pc |-> "never", i |-> 0]

\* The argument of failed: a text, and the row index the text names (0 when it
\* names none).
NoMessage == [text |-> "", row |-> 0]

NoWorker ==
    [mode |-> "per_entry", rows |-> 0, naming |-> "index", pc |-> "none", i |-> 0,
     _cancel_requested |-> FALSE, cancel_at |-> NoCancel, event |-> "none",
     message |-> NoMessage, emitted |-> <<>>,
     delivered |-> FALSE, tmpdir |-> [p \in Paths |-> "absent"]]

\* PdfGenerationWorker(...): the worker of a new job, run() not yet called.
PdfGenerationWorker(mode, rows, naming) ==
    [NoWorker EXCEPT !.mode = mode, !.rows = rows, !.naming = naming, !.pc = "start"]

output_path(w, index) == IF w.naming = "index" THEN index ELSE 0

isRunning(thread) == thread \in gn_running

JobRunningNever == FALSE

\* if self._generation_thread and self._generation_thread.isRunning()
JobRunning == gn_thread # 0 /\ isRunning(gn_thread)

NoLast == [op |-> "none", thread |-> 0, worker |-> 0, progress |-> 0, jobs |-> 0, running |-> {}]

Last(op) == [NoLast EXCEPT !.op = op]

request_cancel(workers, k) ==
    [workers EXCEPT ![k]._cancel_requested = TRUE,
                    ![k].cancel_at = IF workers[k]._cancel_requested THEN @
                                     ELSE [pc |-> workers[k].pc, i |-> workers[k].i]]

IdleGeneration ==
    /\ gn_thread = 0
    /\ gn_worker = 0
    /\ gn_progress = 0
    /\ gn_main = "idle"
    /\ gn_pending = "none"
    /\ gn_jobs = 0
    /\ gn_running = {}
    /\ gn_workers = [k \in 1..MaxJobs |-> NoWorker]
    /\ gn_disk = [out |-> [p \in Paths |-> NoFile], final |-> NoFile]
    /\ gn_last = NoLast

\* The window after construction: no job yet.
InitWindow == IdleGeneration

\* Files an earlier run left in the output folder.
EarlierFiles == [p \in Paths |-> [st |-> "refreshed", job |-> 0, row |-> p]]

\* The window right after _action_generate_pdfs has started its first job.
InitWorker ==
    /\ gn_thread = 1
    /\ gn_worker = 1
    /\ gn_progress = 1
    /\ gn_main = "idle"
    /\ gn_pending = "none"
    /\ gn_jobs = 1
    /\ gn_running = {1}
    /\ \E mode \in Modes, rows \in 1..MaxRows, naming \in Naming :
          gn_workers = [k \in 1..MaxJobs |->
                           IF k = 1 THEN PdfGenerationWorker(mode, rows, naming) ELSE NoWorker]
    /\ \E out \in {[p \in Paths |-> NoFile], EarlierFiles} :
          gn_disk = [out |-> out, final |-> out[0]]
    /\ gn_last = NoLast

\* MainWindow._action_generate_pdfs: the request is turned down while a job
\* runs, given up when the options dialog is dismissed, and otherwise starts
\* a worker on a new thread and fills the job slot.
_action_generate_pdfs(mode, rows, naming, accepted) ==
    /\ gn_main = "idle"
    /\ IF JobRunning
       THEN /\ gn_last' = [op |-> "rejected", thread |-> gn_thread, worker |-> gn_worker,
                           progress |-> gn_progress, jobs |-> gn_jobs, running |-> gn_running]
            /\ UNCHANGED <<gn_thread, gn_worker, gn_progress, gn_jobs, gn_running, gn_workers>>
       ELSE IF ~accepted
       THEN /\ gn_last' = NoLast
            /\ UNCHANGED <<gn_thread, gn_worker, gn_progress, gn_jobs, gn_running, gn_workers>>
       ELSE /\ gn_jobs < MaxJobs
            /\ LET job == gn_jobs + 1
               IN  /\ gn_jobs' = job
                   /\ gn_workers' = [gn_workers EXCEPT ![job] = PdfGenerationWorker(mode, rows, naming)]
                   /\ gn_thread' = job
                   /\ gn_worker' = job
                   /\ gn_progress' = job
                   /\ gn_running' = gn_running \cup {job}
            /\ gn_last' = NoLast
    /\ UNCHANGED <<gn_main, gn_pending, gn_disk>>

\* progress.canceled -> worker.request_cancel
ProgressCanceled ==
    /\ gn_main = "idle"
    /\ gn_progress # 0
    /\ gn_workers' = request_cancel(gn_workers, gn_progress)
    /\ gn_last' = NoLast
    /\ UNCHANGED <<gn_thread, gn_worker, gn_progress, gn_main, gn_pending, gn_jobs, gn_running,
                   gn_disk>>

\* MainWindow._cleanup_generation_worker, up to thread.wait(): with a thread
\* in the slot the main thread waits for it, handler still pending.
_cleanup_generation_worker(handler) ==
    /\ gn_progress' = 0
    /\ gn_worker' = 0
    /\ IF gn_thread # 0
       THEN gn_main' = "waiting" /\ gn_pending' = handler /\ gn_last' = NoLast
       ELSE gn_main' = "idle" /\ gn_pending' = "none" /\ gn_last' = Last(handler)
    /\ UNCHANGED <<gn_thread, gn_running, gn_jobs, gn_disk>>

\* thread.wait() returns once the worker's run() has returned and the thread's
\* event loop has quit; the slot's thread is cleared and the handler ends.
ThreadWaitReturns ==
    /\ gn_main = "waiting"
    /\ gn_workers[gn_thread].pc = "done"
    /\ gn_running' = gn_running \ {gn_thread}
    /\ gn_thread' = 0
    /\ gn_main' = "idle"
    /\ gn_last' = Last(gn_pending)
    /\ gn_pending' = "none"
    /\ UNCHANGED <<gn_worker, gn_progress, gn_jobs, gn_workers, gn_disk>>

Deliver(k, event) ==
    /\ gn_main = "idle"
    /\ gn_workers[k].event = event
    /\ ~gn_workers[k].delivered
    /\ gn_workers' = [gn_workers EXCEPT ![k].delivered = TRUE]
    /\ _cleanup_generation_worker(event)

_on_generation_completed(k) == Deliver(k, "completed")

_on_generation_failed(k) == Deliver(k, "failed")

_on_generation_cancelled(k) == Deliver(k, "cancelled")

closeEvent ==
    /\ gn_main = "idle"
    /\ gn_workers' = IF gn_worker # 0 THEN request_cancel(gn_workers, gn_worker) ELSE gn_workers
    /\ _cleanup_generation_worker("close")

--------------------------------------------------------------------------
\* The worker's run(), in the steps between which the main thread can act.

Signal(name, current, total) == [signal |-> name, current |-> current, total |-> total]

Emit(w, event) == [w EXCEPT !.event = event, !.pc = "done",
                            !.emitted = Append(@, Signal(event, 0, 0)),
                            !.tmpdir = [p \in Paths |-> "absent"]]

Working(k, pc) == k \in gn_running /\ gn_workers[k].pc = pc

WindowUnchanged ==
    UNCHANGED <<gn_thread, gn_worker, gn_progress, gn_main, gn_pending, gn_jobs, gn_running,
                gn_last>>

\* thread.started -> worker.run: fill_rows begins with the first row.
run(k) ==
    /\ Working(k, "start")
    /\ gn_workers' = [gn_workers EXCEPT ![k].pc = "row", ![k].i = 1]
    /\ UNCHANGED gn_disk
    /\ WindowUnchanged

\* workers.py 66-67, str(exc) of the exception the fill of a row raised: the
\* text of the library's exception as it is.  fill_rows (engine.py 104-144)
\* has no handler that adds the row index to it.
StrExc(index) == [text |-> "error", row |-> 0]

\* The row's fill raises before its file is opened; run() emits failed with
\* the text of the exception.
RowFails(k) ==
    /\ Working(k, "row")
    /\ gn_workers' = [gn_workers EXCEPT ![k] = Emit([@ EXCEPT !.message = StrExc(@.i)], "failed")]
    /\ UNCHANGED gn_disk
    /\ WindowUnchanged

WriteFile(k, st) ==
    LET w == gn_workers[k]
        path == output_path(w, w.i)
    IN  IF w.mode = "combined"
        THEN /\ gn_workers' = [gn_workers EXCEPT ![k].tmpdir[path] = st,
                                                 ![k].pc = IF st = "partial" THEN "write" ELSE "check"]
             /\ UNCHANGED gn_disk
        ELSE /\ gn_workers' = [gn_workers EXCEPT ![k].pc = IF st = "partial" THEN "write" ELSE "check"]
             /\ gn_disk' = [gn_disk EXCEPT !.out[path] = [st |-> st, job |-> k, row |-> w.i]]

\* output_path.open("wb"): the row's file exists, not yet written out.
RowOpens(k) ==
    /\ Working(k, "row")
    /\ WriteFile(k, "partial")
    /\ WindowUnchanged

\* writer.write(handle) and the close of the file.
RowWritten(k) ==
    /\ Working(k, "write")
    /\ WriteFile(k, "written")
    /\ WindowUnchanged

EmitProgressOfCurrent(w) == [w EXCEPT !.emitted = Append(@, Signal("progress", w.i, w.i))]

\* self.progress.emit(current, len(self._rows))
EmitProgress(w) == [w EXCEPT !.emitted = Append(@, Signal("progress", w.i, w.rows))]

_report_progress_unchecked(k) ==
    /\ Working(k, "check")
    /\ LET w == gn_workers[k]
       IN  gn_workers' = IF w.i < w.rows
                         THEN [gn_workers EXCEPT ![k] = [EmitProgress(w) EXCEPT !.i = w.i + 1, !.pc = "row"]]
                         ELSE [gn_workers EXCEPT ![k] = [EmitProgress(w) EXCEPT !.pc = "post"]]
    /\ UNCHANGED gn_disk
    /\ WindowUnchanged

\* progress_callback(index, total_rows) after the row's file is written:
\* KeyboardInterrupt when cancellation was requested, else the progress
\* signal and the next row.
_report_progress(k) ==
    /\ Working(k, "check")
    /\ LET w == gn_workers[k]
       IN  gn_workers' = IF w._cancel_requested
                         THEN [gn_workers EXCEPT ![k] = Emit(@, "cancelled")]
                         ELSE IF w.i < w.rows
                         THEN [gn_workers EXCEPT ![k] = [EmitProgress(w) EXCEPT !.i = w.i + 1, !.pc = "row"]]
                         ELSE [gn_workers EXCEPT ![k] = [EmitProgress(w) EXCEPT !.pc = "post"]]
    /\ UNCHANGED gn_disk
    /\ WindowUnchanged

\* After fill_rows: the appearance refresh of every output (per entry), or
\* the merge into the combined file and its refresh; run() emits completed.
FinishJob(k) ==
    /\ Working(k, "post")
    /\ LET w == gn_workers[k]
           outputs == {output_path(w, j) : j \in 1..w.rows}
       IN  /\ gn_workers' = [gn_workers EXCEPT ![k] = Emit(@, "completed")]
           /\ gn_disk' = IF w.mode = "combined"
                         THEN [gn_disk EXCEPT !.final = [st |-> "refreshed", job |-> k, row |-> 0]]
                         ELSE [gn_disk EXCEPT !.out = [p \in Paths |->
                                   IF p \in outputs THEN [@[p] EXCEPT !.st = "refreshed"] ELSE @[p]]]
    /\ WindowUnchanged

OthersUnchanged == UNCHANGED <<varsResolve, varsFill, varsMapping, varsCombine, varsEvaluate, varsFlatten, varsNames>>

WorkerStep(k) ==
    \/ run(k)
    \/ RowFails(k)
    \/ RowOpens(k)
    \/ RowWritten(k)
    \/ _report_progress(k)
    \/ FinishJob(k)

\* One window and the jobs it starts, each over a single row.
NextWindow ==
    \/ \E mode \in Modes, accepted \in BOOLEAN :
          _action_generate_pdfs(mode, 1, "index", accepted) /\ OthersUnchanged
    \/ ProgressCanceled /\ OthersUnchanged
    \/ ThreadWaitReturns /\ OthersUnchanged
    \/ \E k \in 1..MaxJobs : _on_generation_completed(k) /\ OthersUnchanged
    \/ \E k \in 1..MaxJobs : _on_generation_failed(k) /\ OthersUnchanged
    \/ \E k \in 1..MaxJobs : _on_generation_cancelled(k) /\ OthersUnchanged
    \/ closeEvent /\ OthersUnchanged
    \/ \E k \in 1..MaxJobs : WorkerStep(k) /\ OthersUnchanged

\* One job from its start to the handler of its terminal event.
NextWorker ==
    \/ ProgressCanceled /\ OthersUnchanged
    \/ closeEvent /\ OthersUnchanged
    \/ ThreadWaitReturns /\ OthersUnchanged
    \/ _on_generation_completed(1) /\ OthersUnchanged
    \/ _on_generation_failed(1) /\ OthersUnchanged
    \/ _on_generation_cancelled(1) /\ OthersUnchanged
    \/ run(1) /\ OthersUnchanged
    \/ RowFails(1) /\ OthersUnchanged
    \/ RowOpens(1) /\ OthersUnchanged
    \/ RowWritten(1) /\ OthersUnchanged
    \/ _report_progress(1) /\ OthersUnchanged
    \/ FinishJob(1) /\ OthersUnchanged

SlotEmpty == gn_thread = 0 /\ gn_worker = 0 /\ gn_progress = 0

TerminalHandlers == {"completed", "failed", "cancelled"}

\* C5: at most one generation job is active; a generate request made while a
\* job's thread runs creates no worker and no thread and leaves the job slot
\* as it was; once the handler of a terminal event has run the slot is empty
\* and the next generate request is not turned down.
C5_OneJobAtATime ==
    /\ Cardinality(gn_running) <= 1
    /\ gn_last.op = "rejected" =>
           /\ gn_jobs = gn_last.jobs
           /\ gn_running = gn_last.running
           /\ gn_thread = gn_last.thread
           /\ gn_worker = gn_last.worker
           /\ gn_progress = gn_last.progress
           /\ gn_thread # 0
    /\ gn_last.op \in TerminalHandlers => SlotEmpty /\ ~JobRunning /\ gn_running = {}

\* A second job runs after the first job's terminal event was handled, and a
\* request made meanwhile was turned down.
C5_Witness ==
    /\ gn_last.op = "rejected"
    /\ gn_thread = 2
    /\ gn_workers[1].delivered
    /\ gn_workers[1].event \in TerminalHandlers

\* request_cancel reached the worker while its run() had not yet returned.
CancelRequestedWhileRunning(w) == w.cancel_at.pc \notin {"never", "done"}

\* The row in progress when request_cancel was called (the first row when no
\* row had begun).
RowInProgress(w) == IF w.cancel_at.pc = "start" THEN 1 ELSE w.cancel_at.i

\* The files of rows 1..n of the job exist.
RowFilesRemain(k, n) ==
    LET w == gn_workers[k]
    IN  \A j \in 1..n :
            IF w.mode = "combined" THEN w.tmpdir[output_path(w, j)] # "absent"
            ELSE gn_disk.out[output_path(w, j)].st # "absent"

NoPartialOutput(k) ==
    /\ \A p \in Paths : gn_disk.out[p].job = k => gn_disk.out[p].st # "partial"
    /\ \A p \in Paths : gn_workers[k].tmpdir[p] # "partial"
    /\ gn_disk.final.st # "partial"

MaxRules == 2

Day == "1995-12-12"

NameCells ==
    { NoneValue, NaN, NaT, EmptyStr, StrValue(Str("male", "l")), StrValue(Str("f", "C")),
      StrValue(Str("none", "C")), Text(Day), IntValue(1), FloatValue("1.5"),
      DateTimeValue(Day, "00:00:00"), DateTimeValue(Day, "15:30:00"),
      TimestampValue(Day, "00:00:00"), DateValue(Day) }

GenderCells == { EmptyStr, StrValue(Str("f", "C")) }

EvalRows ==
    { [c \in {"Name"} |-> n] : n \in NameCells }
        \cup { [c \in {"Name", "Gender"} |-> IF c = "Name" THEN n ELSE g] :
                 n \in NameCells, g \in GenderCells }
        \cup { [c \in {"Gender"} |-> g] : g \in GenderCells }

NotAvailable == StrValue(Str("n/a", "l"))

Checked == DictValue([mode |-> "checkbox", checked |-> TRUE])

Unchecked == DictValue([mode |-> "checkbox", checked |-> FALSE])

LiteralAction(v) == DictValue([mode |-> "literal", value |-> v])

ColumnAction(c) == DictValue([mode |-> "column", column |-> c])

\* Case outputs for the source Name: by match text, as a map.
NameCases ==
    CasesMap([m \in {Str("f", "C"), Str(Day, "l"), Str("none", "C"), Str("1", "l")} |->
                 IF m = Str("f", "C") THEN OutputsF
                 ELSE IF m = Str(Day, "l") THEN OutputsMap([t \in {"Other"} |-> Text(Day)])
                 ELSE IF m = Str("1", "l") THEN OutputsScalar(IntValue(1))
                 ELSE OutputsMap([t \in {"Other"} |-> StrValue(Str("none", "C"))])])

ActionCases ==
    CasesMap([m \in {Str("f", "C"), Str("male", "l")} |->
                 IF m = Str("f", "C")
                 THEN OutputsMap([t \in {"Female", "Male", "Other"} |->
                                     IF t = "Female" THEN Checked
                                     ELSE IF t = "Male" THEN Unchecked
                                     ELSE ColumnAction("Gender")])
                 ELSE OutputsMap([t \in {"Male", "Other"} |->
                                     IF t = "Male" THEN Checked
                                     ELSE LiteralAction(StrValue(Str("male", "l")))])])

Options(keys, all) == [o \in keys |-> all[o]]

ValueAll ==
    [column |-> "Name", default |-> NotAvailable, format |-> "{value:%Y-%m-%d}"]

ChoiceAll ==
    [source |-> "Name", cases |-> NameCases, default |-> OutputsDefault]

ConcatAll ==
    [columns |-> <<"Name", "Gender">>, separator |-> "-", skip_empty |-> TRUE,
     default |-> NotAvailable, prefix |-> "Mx ", suffix |-> "."]

Rule(rule_type, targets, options) == MappingRule(targets[1], rule_type, targets, options, 0, 0)

EvalRuleSet ==
    { Rule("value", <<"Female">>, Options({"column", "default"}, ValueAll)),
      Rule("value", <<"Female", "Male">>, Options({"column"}, ValueAll)),
      Rule("value", <<"Male">>, ValueAll),
      Rule("value", <<"Other">>, [column |-> "Name", format |-> "{value}"]),
      Rule("value", <<"Other">>, Options({"default"}, ValueAll)),
      Rule("literal", <<"Female", "Other">>, [value |-> StrValue(Str("yes", "C"))]),
      Rule("choice", <<"Female", "Male">>, ChoiceAll),
      Rule("choice", <<"Female", "Male">>, ChoiceOptions),
      Rule("choice", <<"Female", "Male">>, Options({"cases", "default"}, ChoiceAll)),
      Rule("choice", <<"Female", "Male", "Other">>, [source |-> "Name", cases |-> ActionCases]),
      Rule("concat", <<"Female">>, Options({"columns", "default"}, ConcatAll)),
      Rule("concat", <<"Male", "Other">>, [columns |-> <<"Name", "Gender">>, separator |-> "-", skip_empty |-> FALSE]),
      Rule("concat", <<"Other">>, ConcatAll),
      Rule("concat", <<"Male">>, Options({"default"}, ConcatAll)),
      [Rule("value", <<"Male">>, ValueAll) EXCEPT !.rule_type = "bogus"] }

NoPayload == [raised |-> "none"]

IdleEvaluate ==
    /\ ev_rules = <<>>
    /\ ev_saved = <<>>
    /\ ev_row = <<>>
    /\ ev_fragments = <<>>
    /\ ev_payload = NoPayload
    /\ ev_pc = "idle"

InitEvaluate ==
    /\ ev_rules \in SeqsUpTo(EvalRuleSet, MaxRules)
    /\ ev_saved = <<>>
    /\ ev_row \in EvalRows
    /\ ev_fragments = <<>>
    /\ ev_payload = NoPayload
    /\ ev_pc = "input"

\* Every rule is written with to_json and read back with from_json before it
\* is evaluated; to_json raises for a rule of no kind.
RoundTrip ==
    /\ ev_pc = "input"
    /\ ev_saved = <<>>
    /\ ev_rules # <<>>
    /\ \A i \in 1..Len(ev_rules) : ~Raises(ev_rules[i])
    /\ ev_saved' = ev_rules
    /\ ev_rules' = [i \in 1..Len(ev_rules) |-> from_json(to_json(ev_rules[i]), i)]
    /\ UNCHANGED <<ev_row, ev_fragments, ev_payload, ev_pc>>

\* evaluate_rules returns the merged payload.
EvaluateReturns ==
    /\ ev_pc = "input"
    /\ \A i \in 1..Len(ev_rules) : ~Raises(ev_rules[i])
    /\ ev_fragments' = [i \in 1..Len(ev_rules) |-> evaluate(ev_rules[i], ev_row)]
    /\ ev_payload' = evaluate_rules(ev_rules, ev_row, Len(ev_rules))
    /\ ev_pc' = "done"
    /\ UNCHANGED <<ev_rules, ev_saved, ev_row>>

\* evaluate raises for the first rule of no kind; nothing is returned.
EvaluateRaises ==
    /\ ev_pc = "input"
    /\ \E i \in 1..Len(ev_rules) : Raises(ev_rules[i])
    /\ ev_fragments' =
           LET first == MinOf({i \in 1..Len(ev_rules) : Raises(ev_rules[i])})
           IN  [i \in 1..(first - 1) |-> evaluate(ev_rules[i], ev_row)]
    /\ ev_pc' = "raised"
    /\ UNCHANGED <<ev_rules, ev_saved, ev_row, ev_payload>>

NextEvaluate ==
    \/ RoundTrip /\ UNCHANGED <<varsResolve, varsFill, varsMapping, varsCombine, varsGeneration, varsFlatten, varsNames>>
    \/ EvaluateReturns /\ UNCHANGED <<varsResolve, varsFill, varsMapping, varsCombine, varsGeneration, varsFlatten, varsNames>>
    \/ EvaluateRaises /\ UNCHANGED <<varsResolve, varsFill, varsMapping, varsCombine, varsGeneration, varsFlatten, varsNames>>

\* The rules of one kind that were evaluated.
Evaluated(rule_type) ==
    {i \in 1..Len(ev_rules) : ev_pc = "done" /\ ev_rules[i].rule_type = rule_type}

\* The cell a Choice rule looks up: None when the source is unset or the row
\* has no such column.
SourceCell(rule, row) ==
    IF "source" \in DOMAIN rule.options
    THEN GetOr(row, rule.options["source"], NoneValue)
    ELSE NoneValue

HasSourceCell(rule, row) ==
    "source" \in DOMAIN rule.options /\ rule.options["source"] \in DOMAIN row

\* The case a Choice rule with a map of cases is to select: the case keyed by
\* the cell, else the case keyed by the stringified cell, else the default.
SelectedCase(rule, row) ==
    LET cases == rule.options["cases"].m
        default == GetOr(rule.options, "default", OutputsMap(<<>>))
        raw == SourceCell(rule, row)
        text == _stringify(raw, EmptyStr)
    IN  IF ~HasSourceCell(rule, row) THEN default
        ELSE IF raw.t = "str" /\ raw.s \in DOMAIN cases THEN cases[raw.s]
        ELSE IF text.s \in DOMAIN cases THEN cases[text.s]
        ELSE default

\* C11: a Choice rule gives the outputs of the case keyed by the source cell,
\* else of the case keyed by the stringified cell (null to the default text,
\* a zero-time date to YYYY-MM-DD, a number to its decimal string), else of
\* the default case; an unset source or a row without the source column
\* gives the default case.
C11_ChoiceSelectsByCellThenText ==
    \A i \in Evaluated("choice") :
        ev_rules[i].options["cases"].form = "map" =>
            ev_fragments[i] = _normalize_choice_output(ev_rules[i], SelectedCase(ev_rules[i], ev_row))

\* The map match -> outputs built from a list of {match, outputs} objects; a
\* later object with the same match replaces an earlier one.
RECURSIVE MapOfList(_)
MapOfList(items) ==
    IF items = <<>> THEN <<>>
    ELSE LET front == MapOfList(SubSeq(items, 1, Len(items) - 1))
             case == items[Len(items)]
         IN  [m \in DOMAIN front \cup {case.match} |->
                 IF m = case.match THEN case.outputs ELSE front[m]]

WithCasesAsMap(rule) ==
    [rule EXCEPT !.options = [o \in DOMAIN rule.options |->
        IF o = "cases" THEN CasesMap(MapOfList(rule.options["cases"].items))
        ELSE rule.options[o]]]

\* C12: a Choice rule whose cases are a list of {match, outputs} objects
\* evaluates, on every row, to the output of the rule whose cases are the map
\* built from that list.
C12_ListCasesEvaluateAsMap ==
    \A i \in Evaluated("choice") :
        ev_rules[i].options["cases"].form = "list" =>
            ev_fragments[i] = evaluate(WithCasesAsMap(ev_rules[i]), ev_row)

\* What a per-target action stands for: a checkbox action its boolean, a
\* literal action its value, a column action the stringified cell of its
\* column.
ActionResult(action, row) ==
    IF action.d.mode = "checkbox" THEN BoolValue(action.d.checked)
    ELSE IF action.d.mode = "literal" THEN action.d.value
    ELSE _stringify(GetOr(row, action.d.column, NoneValue), EmptyStr)

\* The case of a map of cases that is keyed by the source cell of the row.
MatchedCases(rule, row) ==
    LET cases == rule.options["cases"]
        raw == SourceCell(rule, row)
    IN  IF cases.form = "map" /\ raw.t = "str" /\ raw.s \in DOMAIN cases.m
        THEN {cases.m[raw.s]} ELSE {}

\* C13: when the selected case maps targets to actions, every target gets
\* what its action stands for, and no target gets the text of an action
\* object.
C13_ActionsDecideTargetValues ==
    \A i \in Evaluated("choice") :
        \A case \in MatchedCases(ev_rules[i], ev_row) :
            case.k = "map" =>
                \A t \in DOMAIN case.m :
                    case.m[t].t = "dict" => ev_fragments[i][t] = ActionResult(case.m[t], ev_row)

\* The rules whose fragment holds a value for target t.
Writers(t) == {i \in 1..Len(ev_fragments) : t \in DOMAIN ev_fragments[i]}

LastWriter(t) == CHOOSE i \in Writers(t) : \A j \in Writers(t) : j <= i

\* C14: the payload of evaluate_rules has the targets of all fragments, and
\* for each target the value of the last rule, in the given order, whose
\* fragment holds it.
C14_MergeLastWriterWins ==
    ev_pc = "done" =>
        /\ DOMAIN ev_payload = UNION {DOMAIN ev_fragments[i] : i \in 1..Len(ev_fragments)}
        /\ \A t \in DOMAIN ev_payload : ev_payload[t] = ev_fragments[LastWriter(t)][t]
        /\ ev_payload = evaluate_rules(ev_rules, ev_row, Len(ev_rules))

C14_Witness ==
    /\ ev_pc = "done"
    /\ Len(ev_rules) = 2
    /\ \E t \in DOMAIN ev_fragments[1] \cap DOMAIN ev_fragments[2] :
          /\ ev_fragments[1][t] # ev_fragments[2][t]
          /\ ev_payload[t] = ev_fragments[2][t]
    /\ DOMAIN ev_fragments[1] \ DOMAIN ev_fragments[2] # {}

\* A Value rule with a column and no format template.
PlainValueRule(rule) ==
    /\ rule.rule_type = "value"
    /\ "column" \in DOMAIN rule.options
    /\ "format" \notin DOMAIN rule.options

IsNullCell(cell) == cell.t \in {"none", "nan", "nat"}

IsDateTime(cell) == cell.t \in {"datetime", "timestamp"}

\* C15: a Value rule with a column and no format gives every target the same
\* value: the rule's default (the empty string when unset) for a null or
\* missing cell, YYYY-MM-DD for a date-time at midnight, YYYY-MM-DD HH:MM:SS
\* for another date-time, the decimal string for a number, and the cell
\* itself for a string.
C15_ValueIsStringifiedCell ==
    \A i \in Evaluated("value") :
        PlainValueRule(ev_rules[i]) =>
            LET rule == ev_rules[i]
                column == rule.options["column"]
                default == GetOr(rule.options, "default", EmptyStr)
            IN  /\ DOMAIN ev_fragments[i] = Range(rule.targets)
                /\ \A t \in Range(rule.targets) :
                      LET text == ev_fragments[i][t]
                      IN  IF column \notin DOMAIN ev_row THEN text = default
                          ELSE LET cell == ev_row[column]
                               IN  /\ IsNullCell(cell) => text = default
                                   /\ (IsDateTime(cell) /\ cell.hms = "00:00:00") =>
                                          text = Text(cell.ymd)
                                   /\ (IsDateTime(cell) /\ cell.hms # "00:00:00") =>
                                          text = Text(cell.ymd \o " " \o cell.hms)
                                   /\ cell.t = "int" => text = StrValue(IntToStr(cell.n))
                                   /\ cell.t = "float" => text = Text(cell.repr)
                                   /\ cell.t = "str" => text = cell

C15_Witness ==
    \E i \in Evaluated("value") :
        /\ PlainValueRule(ev_rules[i])
        /\ Len(ev_rules[i].targets) = 2
        /\ "Name" \in DOMAIN ev_row
        /\ ev_row["Name"] = TimestampValue(Day, "00:00:00")
        /\ \A t \in Range(ev_rules[i].targets) : ev_fragments[i][t] = Text(Day)

\* The segments a Concat rule is to join: the stringified cells of the
\* listed columns in the listed order, the empty ones left out when
\* skip_empty is set (it is when the option is unset).
Segments(rule, row) ==
    LET columns == GetOr(rule.options, "columns", <<>>)
        texts == [k \in 1..Len(columns) |->
                     _stringify(GetOr(row, columns[k], NoneValue), EmptyStr)]
    IN  IF GetOr(rule.options, "skip_empty", TRUE)
        THEN SelectSeq(texts, LAMBDA text : text # EmptyStr)
        ELSE texts

\* The segments joined with the separator (", " when unset), or the default
\* when there is no segment.
Body(rule, row) ==
    IF Segments(rule, row) = <<>> THEN GetOr(rule.options, "default", EmptyStr)
    ELSE join(GetOr(rule.options, "separator", ", "), Segments(rule, row))

\* The segments of a joined text.
SegmentsOf(text) ==
    IF "parts" \in DOMAIN text.s THEN Range(text.s.parts) ELSE {text}

BodyOf(text) == IF "body" \in DOMAIN text.s THEN text.s.body ELSE text

\* C16, as stated: a Concat rule gives every target the joined segments, the
\* default when there is none, and with skip_empty no segment is empty.
C16_ConcatIsJoinedSegments ==
    \A i \in Evaluated("concat") :
        \A t \in Range(ev_rules[i].targets) :
            /\ ev_fragments[i][t] = Body(ev_rules[i], ev_row)
            /\ (GetOr(ev_rules[i].options, "skip_empty", TRUE) /\ Segments(ev_rules[i], ev_row) # <<>>) =>
                   EmptyStr \notin SegmentsOf(ev_fragments[i][t])

\* C16: a Concat rule gives every target its prefix, the joined segments (the
\* default when there is none) and its suffix; with skip_empty no joined
\* segment is empty.
C16_ConcatIsJoinedSegmentsBetweenAffixes ==
    \A i \in Evaluated("concat") :
        \A t \in Range(ev_rules[i].targets) :
            LET rule == ev_rules[i]
                text == ev_fragments[i][t]
            IN  /\ DOMAIN ev_fragments[i] = Range(rule.targets)
                /\ text = Affixed(GetOr(rule.options, "prefix", ""), Body(rule, ev_row),
                                  GetOr(rule.options, "suffix", ""))
                /\ (GetOr(rule.options, "skip_empty", TRUE) /\ Segments(rule, ev_row) # <<>>) =>
                       EmptyStr \notin SegmentsOf(BodyOf(text))

C16_Witness ==
    \E i \in Evaluated("concat") :
        /\ GetOr(ev_rules[i].options, "prefix", "") # ""
        /\ DOMAIN ev_row = {"Name", "Gender"}
        /\ ev_row["Name"] = StrValue(Str("male", "l"))
        /\ ev_row["Gender"] = EmptyStr
        /\ \A t \in Range(ev_rules[i].targets) :
              BodyOf(ev_fragments[i][t]) = StrValue(Str("male", "l"))

\* Two rule objects with the same name, kind, ordered targets and options.
SameRule(a, b) ==
    /\ a.name = b.name
    /\ a.rule_type = b.rule_type
    /\ a.targets = b.targets
    /\ a.options = b.options

\* A rule read back from its JSON form is the rule that was written, and
\* evaluates as it does.
C17_RuleRoundTrip ==
    (ev_pc = "done" /\ ev_saved # <<>>) =>
        /\ Len(ev_rules) = Len(ev_saved)
        /\ \A i \in 1..Len(ev_saved) :
              /\ SameRule(ev_rules[i], ev_saved[i])
              /\ ev_fragments[i] = evaluate(ev_saved[i], ev_row)

\* A model read back from the file it was saved to has the same keys, in the
\* same order, and the same rule under each key.
C17_ModelRoundTrip ==
    mp_last.op = "reload" =>
        /\ Len(mp_rules) = Len(mp_last.pre)
        /\ \A i \in 1..Len(mp_rules) :
              /\ mp_rules[i].key = mp_last.pre[i].key
              /\ SameRule(mp_rules[i].rule, mp_last.pre[i].rule)
              /\ \A row \in Rows :
                    evaluate(mp_rules[i].rule, row) = evaluate(mp_last.pre[i].rule, row)

C17_ModelWitness ==
    /\ mp_last.op = "reload"
    /\ Len(mp_last.pre) >= 2
    /\ \E i \in 1..Len(mp_rules) :
          /\ mp_rules[i].rule.rule_type = "choice"
          /\ Len(mp_rules[i].rule.targets) >= 2
          /\ mp_rules[i].rule.id # mp_last.pre[i].rule.id

\* A Value rule whose format template fails on the cell of the row.
FormatFails(rule, row) ==
    /\ rule.rule_type = "value"
    /\ "column" \in DOMAIN rule.options
    /\ GetOr(rule.options, "format", "") # ""
    /\ ~format(rule.options["format"],
               _prepare_for_format(GetOr(row, rule.options["column"],
                                         GetOr(rule.options, "default", EmptyStr)))).ok

\* C18: evaluation raises exactly when a rule is of no kind; a Value rule
\* whose format template fails gives every target the plain stringification
\* of the cell, and a Choice rule with no source, or whose source column is
\* not in the row, gives its default case.
C18_OnlyUnknownKindRaises ==
    /\ ev_pc = "raised" => \E i \in 1..Len(ev_rules) : ev_rules[i].rule_type \notin RuleTypes
    /\ ev_pc = "done" => \A i \in 1..Len(ev_rules) : ev_rules[i].rule_type \in RuleTypes
    /\ \A i \in Evaluated("value") :
          FormatFails(ev_rules[i], ev_row) =>
              LET rule == ev_rules[i]
                  default == GetOr(rule.options, "default", EmptyStr)
              IN  \A t \in Range(rule.targets) :
                      ev_fragments[i][t] = _stringify(GetOr(ev_row, rule.options["column"], default), default)
    /\ \A i \in Evaluated("choice") :
          ~HasSourceCell(ev_rules[i], ev_row) =>
              ev_fragments[i] = _normalize_choice_output(ev_rules[i],
                                    GetOr(ev_rules[i].options, "default", OutputsMap(<<>>)))

\* Bit 1 of a flag bitmask is set and its other bits are those of old.
ReadOnlyOf(flags, old) == flags % 2 = 1 /\ flags \div 2 = old \div 2

\* The flags of a written widget against those of the template's widget.
FlagsAsRequired(flags, old, read_only) ==
    IF read_only THEN ReadOnlyOf(flags, old) ELSE flags = old

\* The per-row interactive fill.
C19_FillSetsReadOnlyBit ==
    fl_pc = "done" =>
        /\ Len(fl_output.widgets) = Len(fl_template)
        /\ \A i \in 1..Len(fl_template) :
              /\ fl_output.widgets[i].T = fl_template[i].T
              /\ FlagsAsRequired(fl_output.widgets[i].Ff, fl_template[i].Ff, fl_read_only)

\* A document of the combined job (a scratch document or the pages appended
\* for one row): every object of the template is there, every widget with
\* the flags required, every other object with the flags it had.
FlagsKept(doc) ==
    /\ Len(doc) = Len(cb_template)
    /\ \A o \in 1..Len(cb_template) :
          /\ (doc[o].T = NoName) = (cb_template[o].T = NoName)
          /\ IF cb_template[o].page # 0
             THEN FlagsAsRequired(doc[o].Ff, cb_template[o].Ff, cb_read_only)
             ELSE doc[o].Ff = cb_template[o].Ff

C19_CombinedSetsReadOnlyBit ==
    cb_pc \in {"merge", "write", "done"} =>
        /\ Len(cb_outputs) = cb_rows
        /\ \A i \in 1..Len(cb_outputs) : FlagsKept(cb_outputs[i])
        /\ \A i \in 1..Len(cb_writer.docs) : FlagsKept(cb_writer.docs[i])
        /\ cb_pc = "done" => Len(cb_writer.docs) = cb_rows

\* C19: with read_only set every widget of the output, of the per-row fill
\* and of the combined document, has bit 1 of /Ff set and its other bits as
\* in the template, and no field is removed; with read_only unset no
\* widget's /Ff is changed.
C19_ReadOnlySetsBitOneOnly == C19_FillSetsReadOnlyBit /\ C19_CombinedSetsReadOnlyBit

C19_Witness ==
    /\ cb_pc = "done"
    /\ cb_read_only
    /\ cb_rows >= 2
    /\ \E o, p \in 1..Len(cb_template) :
          /\ cb_template[o].page # 0 /\ cb_template[o].Ff = 2 /\ cb_template[o].T = NoName
          /\ cb_template[p].page # 0 /\ cb_template[p].Ff = 0
          /\ cb_outputs[1][o].Ff = 3
          /\ cb_writer.docs[2][o].Ff = 3
          /\ cb_writer.docs[2][p].Ff = 1

C19_FillWitness ==
    /\ fl_pc = "done"
    /\ fl_read_only
    /\ \E i, j \in 1..Len(fl_template) :
          /\ fl_template[i].Ff = 2 /\ fl_output.widgets[i].Ff = 3
          /\ fl_template[j].Ff = 1 /\ fl_output.widgets[j].Ff = 1

(***************************************************************************)
(* The flatten fill, PdfEngine._write_flattened_pdf and _strip_acroform.   *)
(* A widget is its field name, its page and its field type; the working    *)
(* copy holds the widgets not yet deleted, the texts drawn so far and      *)
(* whether it has a form dictionary.                                       *)
(***************************************************************************)
\* A widget of the template: its field name, page and kind, and whether the
\* template holds a value for it (a text, or the on-state of a check box).
FlatWidget(T, page, kind, V) == [T |-> T, page |-> page, kind |-> kind, V |-> V]

FlatWidgets ==
    {FlatWidget(T, page, kind, V) :
        T \in FieldNames, page \in Pages, kind \in {"text", "checkbox"}, V \in BOOLEAN}

\* The widgets of a document come page by page.
FlatTemplates ==
    {q \in SeqsUpTo(FlatWidgets, MaxWidgets) :
        \A i, j \in 1..Len(q) : i < j => q[i].page <= q[j].page}

FlatValuesA ==
    { StrValue(Str("male", "l")), StrValue(Padded("male", "l")), StrValue(Str("0", "l")),
      StrValue(Str("yes", "C")), StrValue(Str("no", "l")), StrValue(Slashed("yes", "C")),
      StrValue(Slashed("off", "C")), StrValue(Slashed("false", "C")), StrValue(Slashed("0", "l")),
      EmptyStr, BoolValue(TRUE), BoolValue(FALSE), NoneValue, IntValue(1) }

FlatValuesB == { StrValue(Str("male", "l")), StrValue(Str("1", "l")) }

FlatPayloads ==
    { [f \in {"A"} |-> a] : a \in FlatValuesA }
        \cup { [f \in {"B"} |-> b] : b \in FlatValuesB }
        \cup { [f \in {"A", "B"} |-> IF f = "A" THEN a ELSE b] : a \in FlatValuesA, b \in FlatValuesB }

Mark == StrValue(Str("x", "C"))

\* engine.py 346-364: the text burnt in for a payload value.
FlattenText(text) ==
    IF text.t = "str" /\ text.s.slash /\ ~text.s.pad
    THEN IF text.s.w \in {"off", "no"} THEN EmptyStr ELSE Mark
    ELSE IF text.t = "bool" THEN (IF text.b THEN Mark ELSE EmptyStr)
    ELSE IF text.t = "str"
    THEN IF ~text.s.slash /\ text.s.w \in OnWords THEN Mark
         ELSE IF ~text.s.slash /\ text.s.w \in OffWords THEN EmptyStr
         ELSE StrValue(strip(text.s))
    ELSE IF text.t = "none" THEN EmptyStr
    ELSE PyStr(text)

NoFlatDocument == [widgets |-> {}, drawn |-> <<>>, form |-> FALSE]

IdleFlatten ==
    /\ fx_template = <<>>
    /\ fx_payload = <<>>
    /\ fx_working = NoFlatDocument
    /\ fx_i = 0
    /\ fx_output = NoFlatDocument
    /\ fx_pc = "idle"

\* working = fitz.open(); working.insert_pdf(src_doc)
InitFlatten ==
    /\ fx_template \in FlatTemplates
    /\ fx_payload \in FlatPayloads
    /\ fx_working = [widgets |-> 1..Len(fx_template), drawn |-> <<>>, form |-> TRUE]
    /\ fx_i = 1
    /\ fx_output = NoFlatDocument
    /\ fx_pc = IF fx_template = <<>> THEN "form" ELSE "draw"

\* engine.py 341-372: the text of the widget the loop is at is computed and,
\* when it is not empty, inserted into the widget's page.
InsertText ==
    /\ fx_pc = "draw"
    /\ LET widget == fx_template[fx_i]
           text == FlattenText(GetOr(fx_payload, widget.T, EmptyStr))
       IN  fx_working' =
               IF text # EmptyStr
               THEN [fx_working EXCEPT !.drawn = Append(@, [page |-> widget.page, widget |-> fx_i, text |-> text])]
               ELSE fx_working
    /\ fx_pc' = "delete"
    /\ UNCHANGED <<fx_template, fx_payload, fx_i, fx_output>>

\* engine.py 373: page.delete_widget(widget), then the next widget.
DeleteWidget ==
    /\ fx_pc = "delete"
    /\ fx_working' = [fx_working EXCEPT !.widgets = @ \ {fx_i}]
    /\ IF fx_i < Len(fx_template)
       THEN fx_i' = fx_i + 1 /\ fx_pc' = "draw"
       ELSE fx_i' = fx_i /\ fx_pc' = "form"
    /\ UNCHANGED <<fx_template, fx_payload, fx_output>>

\* engine.py 375-376: working.delete_pdf_form() where the library has it.
DeletePdfForm ==
    /\ fx_pc = "form"
    /\ fx_working' = [fx_working EXCEPT !.form = FALSE]
    /\ fx_pc' = "save"
    /\ UNCHANGED <<fx_template, fx_payload, fx_i, fx_output>>

\* engine.py 377-378: AttributeError where the library has no delete_pdf_form.
DeletePdfFormMissing ==
    /\ fx_pc = "form"
    /\ fx_pc' = "save"
    /\ UNCHANGED <<fx_template, fx_payload, fx_working, fx_i, fx_output>>

\* engine.py 380: working.save(output_path)
SaveWorking ==
    /\ fx_pc = "save"
    /\ fx_output' = fx_working
    /\ fx_pc' = "strip"
    /\ UNCHANGED <<fx_template, fx_payload, fx_working, fx_i>>

\* PdfEngine._strip_acroform: /Annots of every page and /AcroForm are dropped.
_strip_acroform(doc) == [doc EXCEPT !.widgets = {}, !.form = FALSE]

StripAcroform ==
    /\ fx_pc = "strip"
    /\ fx_output' = _strip_acroform(fx_output)
    /\ fx_pc' = "done"
    /\ UNCHANGED <<fx_template, fx_payload, fx_working, fx_i>>

NextFlatten ==
    \/ InsertText /\ UNCHANGED <<varsResolve, varsFill, varsMapping, varsCombine, varsGeneration, varsEvaluate, varsNames>>
    \/ DeleteWidget /\ UNCHANGED <<varsResolve, varsFill, varsMapping, varsCombine, varsGeneration, varsEvaluate, varsNames>>
    \/ DeletePdfForm /\ UNCHANGED <<varsResolve, varsFill, varsMapping, varsCombine, varsGeneration, varsEvaluate, varsNames>>
    \/ DeletePdfFormMissing /\ UNCHANGED <<varsResolve, varsFill, varsMapping, varsCombine, varsGeneration, varsEvaluate, varsNames>>
    \/ SaveWorking /\ UNCHANGED <<varsResolve, varsFill, varsMapping, varsCombine, varsGeneration, varsEvaluate, varsNames>>
    \/ StripAcroform /\ UNCHANGED <<varsResolve, varsFill, varsMapping, varsCombine, varsGeneration, varsEvaluate, varsNames>>

\* The texts drawn for widget i, on its page.
DrawnFor(i) ==
    {fx_working.drawn[k].text : k \in {k \in 1..Len(fx_working.drawn) :
        fx_working.drawn[k].widget = i /\ fx_working.drawn[k].page = fx_template[i].page}}

\* What is to be burnt in for a widget: for a text field the string of its
\* value, for a check box a mark when its value is an on intent and nothing
\* when it is an off intent.
ToBurnIn(widget, value) ==
    IF widget.kind = "text"
    THEN IF value.t = "str" THEN {StrValue(strip(value.s))} \ {EmptyStr}
         ELSE IF value.t = "int" THEN {PyStr(value)}
         ELSE {}
    ELSE IF value.t = "bool" THEN (IF value.b THEN {Mark} ELSE {})
    ELSE IF value.t = "str" /\ value.s.w \in OnWords THEN {Mark}
    ELSE {}

Specified(widget, value) ==
    \/ widget.kind = "text" /\ value.t \in {"str", "int", "none"}
    \/ widget.kind = "checkbox" /\ value.t = "bool"
    \/ widget.kind = "checkbox" /\ value.t = "str" /\ value.s.w \in OnWords \cup OffWords

\* The form dictionary is gone and no widget is left in the written document.
FlattenedOutput ==
    fx_pc = "done" => (fx_output.widgets = {} /\ ~fx_output.form)

\* The form dictionary is touched only when every widget has been deleted.
StrippedAfterWidgets ==
    (fx_pc \in {"save", "strip", "done"} \/ ~fx_working.form) =>
        (fx_pc # "idle" => fx_working.widgets = {})

\* C20: the document a flatten fill writes has no widget and no form
\* dictionary; the value of each widget is on its page when the widget is
\* deleted; the form dictionary is stripped only after every widget of every
\* page has been processed.
C20_FlattenDrawsValuesThenStrips ==
    /\ FlattenedOutput
    /\ StrippedAfterWidgets
    /\ \A i \in 1..Len(fx_template) :
          LET widget == fx_template[i]
              value == GetOr(fx_payload, widget.T, EmptyStr)
          IN  (i \notin fx_working.widgets /\ Specified(widget, value)) =>
                  DrawnFor(i) = ToBurnIn(widget, value)

\* The order of the steps alone: what the code computes for a widget is on
\* its page when the widget is deleted.
FlattenOrder ==
    /\ FlattenedOutput
    /\ StrippedAfterWidgets
    /\ \A i \in 1..Len(fx_template) :
          i \notin fx_working.widgets =>
              DrawnFor(i) = {FlattenText(GetOr(fx_payload, fx_template[i].T, EmptyStr))} \ {EmptyStr}

(***************************************************************************)
(* Check-box intents in flatten mode.                                      *)
(***************************************************************************)
\* A value the renderer takes for a check-box intent (engine.py 225-237): a
\* boolean, a state name written with a leading '/', or one of the ten words.
CheckboxIntent(value) ==
    \/ value.t = "bool"
    \/ value.t = "str" /\ strip(value.s).slash /\ strip(value.s).w # ""
    \/ value.t = "str" /\ ~value.s.slash /\ value.s.w \in CheckboxWords

\* Off-like: off, no, false, unchecked or 0 in any letter case, with or
\* without the leading '/', or boolean false.
OffLikeIntent(value) ==
    \/ value.t = "bool" /\ ~value.b
    \/ value.t = "str" /\ value.s.w \in OffWords

\* A check box with the states /Off and /Yes is shown checked by the
\* interactive fill when the resolved state is a declared state other than the
\* off state.
ShownChecked(value) ==
    LET states == <<NameOff, NameYes>>
        state == _resolve_checkbox_state(_normalize_payload_value(value).value, states)
    IN  state # NameOff /\ \E k \in 1..Len(states) : states[k] = state

\* C21: in flatten mode a check-box intent draws the mark exactly when it is
\* not off-like, and nothing when it is off-like; flatten and interactive fill
\* agree on whether the box is shown checked.
C21_FlattenMarkIffOnIntent ==
    \A i \in 1..Len(fx_template) :
        LET widget == fx_template[i]
            value == GetOr(fx_payload, widget.T, EmptyStr)
        IN  (i \notin fx_working.widgets /\ widget.kind = "checkbox" /\ CheckboxIntent(value)) =>
                /\ DrawnFor(i) = (IF OffLikeIntent(value) THEN {} ELSE {Mark})
                /\ (DrawnFor(i) = {Mark}) <=> ShownChecked(value)

\* What a widget shows of its template value once flattened: a text field
\* shows its text, a check box that is on shows the mark.
TemplateShown(widget) ==
    IF ~widget.V THEN {}
    ELSE IF widget.kind = "text" THEN {Text("male")} ELSE {Mark}

\* The interactive fill leaves the widgets of a field without an entry as the
\* template has them.
C22_FillKeepsAbsentField ==
    fl_pc = "done" =>
        \A i \in 1..Len(fl_template) :
            fl_template[i].T \notin DOMAIN fl_payload =>
                /\ fl_output.widgets[i].V = fl_template[i].V
                /\ fl_output.widgets[i].AS = fl_template[i].AS

\* The flatten fill shows the template value of a widget of a field without an
\* entry: the widget is still there, or its value is on the page.
C22_FlattenKeepsAbsentField ==
    fx_pc = "done" =>
        \A i \in 1..Len(fx_template) :
            fx_template[i].T \notin DOMAIN fx_payload =>
                \/ i \in fx_output.widgets
                \/ {fx_output.drawn[k].text : k \in {k \in 1..Len(fx_output.drawn) :
                        fx_output.drawn[k].widget = i}} = TemplateShown(fx_template[i])

\* C22: a field that has no entry in the field-value map is left unchanged by
\* both fills: the output shows the value and appearance state the field has
\* in the template.
C22_AbsentFieldLeftUnchanged ==
    C22_FillKeepsAbsentField /\ C22_FlattenKeepsAbsentField

\* A failed job stops at the row that failed: no file of a later row is
\* written, the terminal event is failed, and in a per-entry job the files of
\* the rows before it are in the output directory, written in full.
C24_AbortsAndKeepsFiles ==
    \A k \in 1..gn_jobs :
        LET w == gn_workers[k]
        IN  (w.event = "failed" /\ k = gn_jobs) =>
                /\ w.pc = "done"
                /\ \A p \in Paths : gn_disk.out[p].job = k => gn_disk.out[p].row < w.i
                /\ gn_disk.final.job # k
                /\ w.mode = "per_entry" =>
                       \A j \in 1..(w.i - 1) :
                           /\ gn_disk.out[output_path(w, j)].st = "written"
                           /\ gn_disk.out[output_path(w, j)].job = k

\* C24: when row i fails the job aborts: no row after i is processed, the
\* worker emits failed and not completed, the failure handed to the caller
\* names the row index i, and the files of the rows before i stay on disk.
C24_FailureAbortsAndNamesRow ==
    /\ C24_AbortsAndKeepsFiles
    /\ \A k \in 1..gn_jobs :
           gn_workers[k].event = "failed" => gn_workers[k].message.row = gn_workers[k].i

\* Block i of the combined document holds the values of row i.
BlocksInRowOrder ==
    \A i \in 1..Len(cb_writer.docs) :
        \A o \in 1..Len(cb_writer.docs[i]) : cb_writer.docs[i][o].row = i

\* The fill of row i+1 begins only when row i has been appended: at most one
\* scratch document is not yet in the combined document.
OneCycleAtATime == Len(cb_outputs) <= Len(cb_writer.docs) + 1

\* Finalization starts only after the append of the last row.
FinalizedAfterLastAppend ==
    cb_pc \in {"write", "done"} => Len(cb_writer.docs) = cb_rows

\* C25: a combine job handles its rows one full cycle at a time in row order
\* (fill, rename, append of row i before the fill of row i+1), finalization
\* starts after the append of the last row, the pages of the combined
\* document are in row order and block i holds the values of row i.
C25_OneRowCycleAtATime ==
    /\ OneCycleAtATime
    /\ FinalizedAfterLastAppend
    /\ cb_writer.pages = Len(cb_writer.docs) * cb_page_count
    /\ BlocksInRowOrder

TerminalSignals == {"completed", "failed", "cancelled"}

\* C26: a run of a generation worker emits exactly one terminal event
\* (completed, failed or cancelled) and nothing after it; the progress events
\* before it carry the row indices 1, 2, ... in order with the number of rows
\* as total; completed comes only after the progress event of the last row.
C26_OneTerminalEventAfterProgress ==
    \A k \in 1..gn_jobs :
        LET w == gn_workers[k]
            n == Len(w.emitted)
            terminals == {j \in 1..n : w.emitted[j].signal \in TerminalSignals}
        IN  /\ terminals \subseteq {n}
            /\ w.pc = "done" <=> terminals = {n}
            /\ \A j \in (1..n) \ terminals : w.emitted[j] = Signal("progress", j, w.rows)
            /\ (n > 0 /\ w.emitted[n].signal = "completed") => n = w.rows + 1
            /\ n <= w.rows + 1

\* C26's case: a job over two rows has emitted completed after two progress
\* events, and the window has handled it.
C26_Witness ==
    /\ gn_workers[1].rows = 2
    /\ Len(gn_workers[1].emitted) = 3
    /\ gn_workers[1].emitted[3].signal = "completed"
    /\ gn_workers[1].delivered

\* The index is closed and in sync: every key holds a rule of its own name
\* that lists it, and every target a rule lists has an entry of the same
\* kind, targets and options.
InSync(rules) ==
    \A k \in Keys(rules) :
        LET rule == RuleAt(rules, k)
        IN  /\ rule.name = k
            /\ k \in Range(rule.targets)
            /\ \A t \in Range(rule.targets) :
                   /\ t \in Keys(rules)
                   /\ RuleAt(rules, t).rule_type = rule.rule_type
                   /\ RuleAt(rules, t).targets = rule.targets
                   /\ RuleAt(rules, t).options = rule.options

\* The rules a new model holds after up to n assign calls.
RECURSIVE AfterAssigns(_)
AfterAssigns(n) ==
    IF n = 0 THEN {<<>>}
    ELSE LET before == AfterAssigns(n - 1)
         IN  before \cup {Aged(assign(rules, f, arg)) : rules \in before, f \in Fields, arg \in RuleArgs}

\* C27: after any sequence of assign calls the index is closed and in sync.
C27_IndexInSyncAfterAssigns ==
    (AfterAssign /\ mp_last.pre \in AfterAssigns(MaxOps - 1)) => InSync(mp_rules)

\* A text field: a widget with no appearance states.
IsTextField(w) == w.states = <<>>

\* C28: an interactive fill writes the text of a text field as the field's
\* value for every string, the check-box words and the strings that start
\* with '/' included, and writes no state name into the value or the
\* appearance state of a text field.
C28_TextFieldGetsItsText ==
    fl_pc = "done" =>
        \A i \in 1..Len(fl_template) :
            LET w == fl_template[i]
            IN  (IsTextField(w) /\ w.T # NoT /\ w.T \in DOMAIN fl_payload /\ fl_payload[w.T].t = "str") =>
                    /\ fl_output.widgets[i].V = TextEntry(strip(fl_payload[w.T].s))
                    /\ fl_output.widgets[i].AS = w.AS

\* C29: for every intent the fill can pass (a string, a boolean, a state
\* name) and every list of available states, the empty list and the list that
\* holds only the off state included, the resolver returns a state name,
\* never a null result.
C29_ResolverReturnsAState ==
    (rs_pc = "done" /\ rs_value.t \in {"str", "bool", "name"}) => rs_result # None

\* The document an interactive fill writes has the flag set.
C30_FillSetsNeedAppearances ==
    fl_pc = "done" => fl_output.NeedAppearances

\* The combined document is written with the flag set, after the last row
\* was appended.
C30_CombinedSetsNeedAppearances ==
    /\ cb_pc = "done" => cb_writer.NeedAppearances
    /\ cb_writer.NeedAppearances => Len(cb_writer.docs) = cb_rows

\* C30: every document that is not flattened is written with
\* /NeedAppearances true: by the interactive fill, which creates the form
\* dictionary when the template has none, and by the combiner, after the last
\* row has been appended and before the document is written.
C30_NeedAppearancesAlwaysSet ==
    C30_FillSetsNeedAppearances /\ C30_CombinedSetsNeedAppearances

StartResolve == InitResolve /\ IdleCombine /\ IdleGeneration /\ IdleFill /\ IdleMapping /\ IdleEvaluate /\ IdleFlatten /\ IdleNames

SpecResolve == StartResolve /\ [][NextResolve]_vars

StartFill == InitFill /\ IdleCombine /\ IdleGeneration /\ IdleResolve /\ IdleMapping /\ IdleEvaluate /\ IdleFlatten /\ IdleNames

SpecFill == StartFill /\ [][NextFill]_vars

StartMapping == InitMapping /\ IdleCombine /\ IdleGeneration /\ IdleResolve /\ IdleFill /\ IdleEvaluate /\ IdleFlatten /\ IdleNames

SpecMapping == StartMapping /\ [][NextMapping]_vars

StartCombine == InitCombine /\ IdleGeneration /\ IdleResolve /\ IdleFill /\ IdleMapping /\ IdleEvaluate /\ IdleFlatten /\ IdleNames

SpecCombine == StartCombine /\ [][NextCombine]_vars

StartWindow == InitWindow /\ IdleResolve /\ IdleFill /\ IdleMapping /\ IdleCombine /\ IdleEvaluate /\ IdleFlatten /\ IdleNames

SpecWindow == StartWindow /\ [][NextWindow]_vars

StartWorker == InitWorker /\ IdleResolve /\ IdleFill /\ IdleMapping /\ IdleCombine /\ IdleEvaluate /\ IdleFlatten /\ IdleNames

SpecWorker == StartWorker /\ [][NextWorker]_vars

StartEvaluate == InitEvaluate /\ IdleResolve /\ IdleFill /\ IdleMapping /\ IdleCombine /\ IdleGeneration /\ IdleFlatten /\ IdleNames

SpecEvaluate == StartEvaluate /\ [][NextEvaluate]_vars

StartFlatten == InitFlatten /\ IdleResolve /\ IdleFill /\ IdleMapping /\ IdleCombine /\ IdleGeneration /\ IdleEvaluate /\ IdleNames

SpecFlatten == StartFlatten /\ [][NextFlatten]_vars

StartNames == InitNames /\ IdleResolve /\ IdleFill /\ IdleMapping /\ IdleCombine /\ IdleGeneration /\ IdleEvaluate /\ IdleFlatten

SpecNames == StartNames /\ [][NextNames]_vars

====
